---- MODULE Spec2Model ----
(***************************************************************************)
(* Model of the tournament aggregation and rating-estimation pipeline of   *)
(* build_site.py.  A Python str is a sequence of one-character strings; a  *)
(* score or result is counted in half points (1 = 0.5, 2 = 1.0); a rating  *)
(* estimate is an integer number of hundredths of a rating point.          *)
(***************************************************************************)
EXTENDS Integers, Sequences, FiniteSets, TLC

(* ------------------------------------------------------------------ *)
(* Python str primitives used by build_site.py                         *)
(* ------------------------------------------------------------------ *)
LowerChars == <<"a","b","c","d","e","f","g","h","i","j","k","l","m","n","o","p","q","r","s","t","u","v","w","x","y","z">>

UpperChars == <<"A","B","C","D","E","F","G","H","I","J","K","L","M","N","O","P","Q","R","S","T","U","V","W","X","Y","Z">>

Range(f) == {f[i] : i \in DOMAIN f}

LowerSet == Range(LowerChars)

UpperSet == Range(UpperChars)

DigitSet == {"0","1","2","3","4","5","6","7","8","9"}

Whitespace == {" ", "\t", "\n"}

AlnumSet == LowerSet \cup UpperSet \cup DigitSet

IndexOf(seq, c) == CHOOSE i \in 1..Len(seq) : seq[i] = c

lower_c(c) == IF c \in UpperSet THEN LowerChars[IndexOf(UpperChars, c)] ELSE c

upper_c(c) == IF c \in LowerSet THEN UpperChars[IndexOf(LowerChars, c)] ELSE c

str_lower(s) == [i \in 1..Len(s) |-> lower_c(s[i])]

str_upper(s) == [i \in 1..Len(s) |-> upper_c(s[i])]

str_capitalize(s) == [i \in 1..Len(s) |-> IF i = 1 THEN upper_c(s[i]) ELSE lower_c(s[i])]

str_isdigit(s) == Len(s) > 0 /\ \A i \in 1..Len(s) : s[i] \in DigitSet

HasAt(s, i, sub) ==
    /\ i >= 1
    /\ i + Len(sub) - 1 <= Len(s)
    /\ \A k \in 1..Len(sub) : s[i + k - 1] = sub[k]

str_contains(s, sub) == \E i \in 1..(Len(s) + 1) : HasAt(s, i, sub)

RECURSIVE str_replace(_, _, _)
str_replace(s, old, new) ==
    IF Len(s) < Len(old) THEN s
    ELSE IF HasAt(s, 1, old)
         THEN new \o str_replace(SubSeq(s, Len(old) + 1, Len(s)), old, new)
         ELSE <<s[1]>> \o str_replace(Tail(s), old, new)

RECURSIVE str_split(_, _)
str_split(s, sep) ==
    IF \A i \in 1..Len(s) : s[i] # sep THEN <<s>>
    ELSE LET i == CHOOSE j \in 1..Len(s) : s[j] = sep /\ \A k \in 1..(j - 1) : s[k] # sep
         IN  <<SubSeq(s, 1, i - 1)>> \o str_split(SubSeq(s, i + 1, Len(s)), sep)

RECURSIVE str_split_ws(_)
str_split_ws(s) ==
    IF s = <<>> THEN <<>>
    ELSE IF s[1] \in Whitespace THEN str_split_ws(Tail(s))
    ELSE LET e == CHOOSE j \in 1..Len(s) :
                      /\ \A k \in 1..j : s[k] \notin Whitespace
                      /\ (j = Len(s) \/ s[j + 1] \in Whitespace)
         IN  <<SubSeq(s, 1, e)>> \o str_split_ws(SubSeq(s, e + 1, Len(s)))

RECURSIVE str_join(_, _)
str_join(words, sep) ==
    IF words = <<>> THEN <<>>
    ELSE IF Len(words) = 1 THEN words[1]
    ELSE words[1] \o sep \o str_join(Tail(words), sep)

(* ------------------------------------------------------------------ *)
(* re.match building blocks: a pattern maps a set of positions (number *)
(* of characters consumed so far) to the set of positions it can reach *)
(* ------------------------------------------------------------------ *)
ReLitI(s, P, lit) ==
    {p + Len(lit) : p \in {q \in P : /\ q + Len(lit) <= Len(s)
                                     /\ \A k \in 1..Len(lit) :
                                            lower_c(s[q + k]) = lower_c(lit[k])}}

ReLit(s, P, lit) == {p + Len(lit) : p \in {q \in P : HasAt(s, q + 1, lit)}}

RePlus(s, P, class) ==
    {q \in 1..Len(s) : \E p \in P : p < q /\ \A k \in (p + 1)..q : s[k] \in class}

ReStar(s, P, class) == P \cup RePlus(s, P, class)

ReOne(s, P, class) == {p + 1 : p \in {q \in P : q + 1 <= Len(s) /\ s[q + 1] \in class}}

ReEnd(s, P) ==
    {p \in P : p = Len(s) \/ (p = Len(s) - 1 /\ s[Len(s)] = "\n")}

(* r'^<word>\s+\d+\s*<sep>' with re.IGNORECASE, continued from positions P *)
ReNumbered(s, P, word, sep) ==
    ReLitI(s, ReStar(s, RePlus(s, RePlus(s, ReLitI(s, P, word), Whitespace), DigitSet),
                     Whitespace), sep)

(* r'^<word>\s*<sep>' with re.IGNORECASE *)
ReHeaded(s, word, sep) == ReLitI(s, ReStar(s, ReLitI(s, {0}, word), Whitespace), sep)

(* ------------------------------------------------------------------ *)
(* is_round_pairing (build_site.py 235-309)                            *)
(* ------------------------------------------------------------------ *)
italian_ordinals ==
    << <<"p","r","i","m","o">>, <<"s","e","c","o","n","d","o">>, <<"t","e","r","z","o">>, <<"q","u","a","r","t","o">>, <<"q","u","i","n","t","o">>,
       <<"s","e","s","t","o">>, <<"s","e","t","t","i","m","o">>, <<"o","t","t","a","v","o">>, <<"n","o","n","o">>, <<"d","e","c","i","m","o">>,
       <<"u","n","d","i","c","e","s","i","m","o">>, <<"d","o","d","i","c","e","s","i","m","o">>, <<"t","r","e","d","i","c","e","s","i","m","o">> >>

other_round_patterns == << <<"r","u","n","d","e">>, <<"t","o","u","r">>, <<"r","o","n","d","a">>, <<"p","a","r","t","i","d","a">> >>

(* Pattern 1: r'^(Classical\s+|Rapid\s+|Blitz\s+)?Round\s+\d+\s*:' *)
MatchRound(s) ==
    LET pre == {0} \cup RePlus(s, ReLitI(s, {0}, <<"c","l","a","s","s","i","c","a","l">>), Whitespace)
                   \cup RePlus(s, ReLitI(s, {0}, <<"r","a","p","i","d">>), Whitespace)
                   \cup RePlus(s, ReLitI(s, {0}, <<"b","l","i","t","z">>), Whitespace)
    IN  ReNumbered(s, pre, <<"r","o","u","n","d">>, <<":">>) # {}

(* Pattern 2: r'^Game\s+\d+\s*:' *)
MatchGame(s) == ReNumbered(s, {0}, <<"g","a","m","e">>, <<":">>) # {}

(* Pattern 3: r'^Round\s+of\s+\d+\s*\|' *)
MatchRoundOf(s) ==
    ReNumbered(s, RePlus(s, ReLitI(s, {0}, <<"r","o","u","n","d">>), Whitespace), <<"o","f">>, <<"|">>) # {}

(* Pattern 4: knockout stages, r'^Quarter-Finals?\s*\|' and the like *)
MatchKnockout(s) ==
    LET finals(P, w) == LET a == ReLitI(s, P, w)
                        IN  ReLitI(s, ReStar(s, a \cup ReLitI(s, a, <<"s">>), Whitespace), <<"|">>)
        spaced(w1, w2) == ReLitI(s, ReStar(s, ReLitI(s, RePlus(s, ReLitI(s, {0}, w1),
                                                   Whitespace), w2), Whitespace), <<"|">>)
    IN  \/ finals({0}, <<"q","u","a","r","t","e","r","-","f","i","n","a","l">>) # {}
        \/ finals({0}, <<"s","e","m","i","-","f","i","n","a","l">>) # {}
        \/ finals({0}, <<"f","i","n","a","l">>) # {}
        \/ spaced(<<"3","r","d">>, <<"p","l","a","c","e">>) # {}
        \/ spaced(<<"b","r","o","n","z","e">>, <<"m","e","d","a","l">>) # {}

(* Pattern 5: tiebreak games *)
MatchTiebreak(s) ==
    \/ ReHeaded(s, <<"t","i","e","b","r","e","a","k">>, <<":">>) # {}
    \/ str_contains(s, <<"|"," ","T","i","e","b","r","e","a","k",":">>)
    \/ str_contains(s, <<"|","T","i","e","b","r","e","a","k",":">>)

(* Pattern 6: rf'^{ordinal}\s+turno\s*:' *)
MatchTurno(s) ==
    \E o \in DOMAIN italian_ordinals :
        ReLitI(s, ReStar(s, ReLitI(s, RePlus(s, ReLitI(s, {0}, italian_ordinals[o]),
                                   Whitespace), <<"t","u","r","n","o">>), Whitespace), <<":">>) # {}

(* Pattern 7: r'^Runde\s+\d+\s*:' and the French, Spanish, Portuguese forms *)
MatchOtherRound(s) ==
    \E o \in DOMAIN other_round_patterns :
        ReNumbered(s, {0}, other_round_patterns[o], <<":">>) # {}

(* Pattern 8: r'^[A-Z][a-z]+,\s+[A-Z][a-z]+\s+-\s+[A-Z][a-z]+,\s+[A-Z][a-z]+$' *)
MatchHeadToHead(s) ==
    LET word(P) == RePlus(s, ReOne(s, P, UpperSet), LowerSet)
        person(P) == word(RePlus(s, ReLit(s, word(P), <<",">>), Whitespace))
    IN  ReEnd(s, person(RePlus(s, ReLit(s, RePlus(s, person({0}), Whitespace), <<"-">>),
                               Whitespace))) # {}

is_round_pairing(event_str) ==
    IF event_str = <<>> THEN FALSE
    ELSE \/ MatchRound(event_str)
         \/ MatchGame(event_str)
         \/ MatchRoundOf(event_str)
         \/ MatchKnockout(event_str)
         \/ MatchTiebreak(event_str)
         \/ MatchTurno(event_str)
         \/ MatchOtherRound(event_str)
         \/ MatchHeadToHead(event_str)

(* ------------------------------------------------------------------ *)
(* extract_tournament_from_url (build_site.py 312-378)                 *)
(* None is modelled as the empty string: the only caller tests the     *)
(* result with "if not tournament_name".                               *)
(* ------------------------------------------------------------------ *)
MinOf(S) == CHOOSE x \in S : \A y \in S : x <= y

(* re.search(r'/broadcast/([^/]+)/', site_url): group 1 of the leftmost match *)
BroadcastSlug(site_url) ==
    LET pre == <<"/","b","r","o","a","d","c","a","s","t","/">>
        close(i) == {j \in (i + Len(pre) + 1)..Len(site_url) :
                        /\ site_url[j] = "/"
                        /\ \A k \in (i + Len(pre))..(j - 1) : site_url[k] # "/"}
        starts == {i \in 1..Len(site_url) : HasAt(site_url, i, pre) /\ close(i) # {}}
    IN  IF starts = {} THEN <<>>
        ELSE LET i == MinOf(starts)
             IN  SubSeq(site_url, i + Len(pre), MinOf(close(i)) - 1)

SlugChars == LowerSet \cup DigitSet \cup {"-"}

excluded == { <<"g","a","m","e">>, <<"s","t","u","d","y">>, <<"e","d","i","t","o","r">>, <<"a","n","a","l","y","s","i","s">>, <<"t","r","a","i","n","i","n","g">>, <<"l","e","a","r","n">>, <<"t","v">>, <<"a","p","i">> }

(* re.search(r'lichess\.org/([a-z0-9-]+(?:-\d{4})?)/[a-zA-Z0-9]+', site_url),  *)
(* kept only when longer than 10 characters and not an excluded path word      *)
DirectSlug(site_url) ==
    LET pre == <<"l","i","c","h","e","s","s",".","o","r","g","/">>
        runEnd(i) == {e \in (i + Len(pre))..Len(site_url) :
                        /\ \A k \in (i + Len(pre))..e : site_url[k] \in SlugChars
                        /\ e + 2 <= Len(site_url)
                        /\ site_url[e + 1] = "/"
                        /\ site_url[e + 2] \in AlnumSet}
        starts == {i \in 1..Len(site_url) : HasAt(site_url, i, pre) /\ runEnd(i) # {}}
    IN  IF starts = {} THEN <<>>
        ELSE LET i == MinOf(starts)
                 potential_slug == SubSeq(site_url, i + Len(pre), MinOf(runEnd(i)))
             IN  IF Len(potential_slug) > 10 /\ potential_slug \notin excluded
                 THEN potential_slug ELSE <<>>

acronyms == { <<"f","i","d","e">>, <<"u","s","a">>, <<"u","s">>, <<"g","m">>, <<"i","m">>, <<"f","m">>, <<"w","g","m">>, <<"w","i","m">> }

common_words == { <<"d","i">>, <<"d","e">>, <<"l","a">>, <<"l","e">>, <<"a">>, <<"e">>, <<"i">>, <<"o">>, <<"u">> }

(* one word of the slug, after the split on single dashes *)
FormatSlugWord(w) ==
    LET word == str_replace(w, <<"|","|","|">>, <<" ">>)
    IN  IF str_lower(word) \in acronyms THEN str_upper(word)
        ELSE IF str_isdigit(word) THEN word
        ELSE IF Len(word) <= 2 /\ str_lower(word) \notin common_words THEN str_upper(word)
        ELSE str_capitalize(word)

RECURSIVE FormatSlugWords(_)
FormatSlugWords(words) ==
    IF words = <<>> THEN <<>>
    ELSE IF str_replace(words[1], <<"|","|","|">>, <<" ">>) = <<>> THEN FormatSlugWords(Tail(words))
    ELSE <<FormatSlugWord(words[1])>> \o FormatSlugWords(Tail(words))

SlugToTitle(slug) ==
    str_join(FormatSlugWords(str_split(str_replace(slug, <<"-","-">>, <<"|","|","|">>), "-")), <<" ">>)

extract_tournament_from_url(site_url) ==
    IF site_url = <<>> THEN <<>>
    ELSE LET slug == IF BroadcastSlug(site_url) # <<>> THEN BroadcastSlug(site_url)
                     ELSE DirectSlug(site_url)
         IN  IF slug = <<>> THEN <<>> ELSE SlugToTitle(slug)

(* ------------------------------------------------------------------ *)
(* format_tournament_name (build_site.py 865-878)                      *)
(* ------------------------------------------------------------------ *)
FormatNameWord(word) ==
    IF str_isdigit(word) THEN word
    ELSE IF Len(word) <= 3 THEN str_upper(word)
    ELSE str_capitalize(word)

format_tournament_name(filename) ==
    LET name == str_replace(str_replace(filename, <<"-">>, <<" ">>), <<"_">>, <<" ">>)
        words == str_split_ws(name)
    IN  str_join([i \in 1..Len(words) |-> FormatNameWord(words[i])], <<" ">>)

(* ------------------------------------------------------------------ *)
(* load_tournament_data, first pass: the tournament name of one row    *)
(* (build_site.py 418-431)                                             *)
(* ------------------------------------------------------------------ *)
RowIsPairing(event) == event # <<>> /\ is_round_pairing(event)

(* variant: the site url is not consulted for a pairing *)
RowTournamentName_NoUrl(event, site, folder_name) ==
    IF RowIsPairing(event) THEN format_tournament_name(folder_name)
    ELSE IF event # <<>> THEN event
    ELSE format_tournament_name(folder_name)

RowTournamentName(event, site, folder_name) ==
    IF RowIsPairing(event)
    THEN IF extract_tournament_from_url(site) # <<>>
         THEN extract_tournament_from_url(site)
         ELSE format_tournament_name(folder_name)
    ELSE IF event # <<>> THEN event
    ELSE format_tournament_name(folder_name)

(* second pass: time control and identity of a group (build_site.py 441-456) *)
(* variant: "blitz" wins when both keywords are present *)
ActualTimeControl_BlitzFirst(tournament_name, time_control) ==
    LET name_lower == str_lower(tournament_name)
    IN  IF str_contains(name_lower, <<"b","l","i","t","z">>) THEN <<"b","l","i","t","z">>
        ELSE IF str_contains(name_lower, <<"r","a","p","i","d">>) THEN <<"r","a","p","i","d">>
        ELSE time_control

ActualTimeControl(tournament_name, time_control) ==
    LET name_lower == str_lower(tournament_name)
        has_blitz == str_contains(name_lower, <<"b","l","i","t","z">>)
        has_rapid == str_contains(name_lower, <<"r","a","p","i","d">>)
    IN  IF has_blitz /\ ~has_rapid THEN <<"b","l","i","t","z">>
        ELSE IF has_rapid /\ ~has_blitz THEN <<"r","a","p","i","d">>
        ELSE time_control

FullTournamentId(tournament_name, time_control) ==
    LET tournament_id == str_replace(str_replace(str_lower(tournament_name), <<" ">>, <<"-">>),
                                     <<"_">>, <<"-">>)
    IN  tournament_id \o <<"-">> \o ActualTimeControl(tournament_name, time_control)

(* ------------------------------------------------------------------ *)
(* Rating estimate (build_site.py 556, 568-583 and 761-779)            *)
(* ------------------------------------------------------------------ *)
(* math.log10(k) in units of 1/10000, rounded to nearest, k = 1..41 *)
Log10Table ==
    << 0, 3010, 4771, 6021, 6990, 7782, 8451, 9031, 9542, 10000,
       10414, 10792, 11139, 11461, 11761, 12041, 12304, 12553, 12788, 13010,
       13222, 13424, 13617, 13802, 13979, 14150, 14314, 14472, 14624, 14771,
       14914, 15051, 15185, 15315, 15441, 15563, 15682, 15798, 15911, 16021, 16128 >>

(* math.log10(a / b) for positive integers a, b, in units of 1/10000 *)
Log10Ratio(a, b) == Log10Table[a] - Log10Table[b]

(* avg_opp_elo = opp_elo_sum / games, in hundredths of a rating point *)
AvgOppElo(opp_elo_sum, games) == (opp_elo_sum * 100) \div games

(* the else-branch of "Calculate TPR": m is the score in half points, n the *)
(* number of games, so m / (n - m) is m : 2n - m and (n + 0.5 - m) / (m + 0.5) *)
(* is 2n + 1 - m : m + 1; 400 * log10 in hundredths is 4 * Log10Ratio          *)
(* variants of the closed form with one slip each *)
ClosedFormTPR_SignSlip(m, n, avg) ==
    IF m = 0 \/ m = 2 * n
    THEN avg + ((n + 1) * 4 * Log10Ratio(2 * n + 1 - m, m + 1)) \div n
    ELSE avg + 4 * Log10Ratio(m, 2 * n - m)

ClosedFormTPR_NoScale(m, n, avg) ==
    IF m = 0 \/ m = 2 * n
    THEN avg - 4 * Log10Ratio(2 * n + 1 - m, m + 1)
    ELSE avg + 4 * Log10Ratio(m, 2 * n - m)

ClosedFormTPR_Inverted(m, n, avg) ==
    IF m = 0 \/ m = 2 * n
    THEN avg - ((n + 1) * 4 * Log10Ratio(2 * n + 1 - m, m + 1)) \div n
    ELSE avg + 4 * Log10Ratio(2 * n - m, m)

ClosedFormTPR(m, n, avg) ==
    IF m = 0 \/ m = 2 * n
    THEN avg - ((n + 1) * 4 * Log10Ratio(2 * n + 1 - m, m + 1)) \div n
    ELSE avg + 4 * Log10Ratio(m, 2 * n - m)

(* what the optional epr_calculator returns when it does not raise: a value  *)
(* deviating from the average opponent rating in the same direction and with  *)
(* the same order of magnitude as the closed form                             *)
OptimizerEPR(m, n, avg) == avg + ((ClosedFormTPR(m, n, avg) - avg) * 9) \div 10

OptimizerOutcomes == {"ok", "raise"}

(* lines 569-583: the estimate of one player, given whether the optimizer was *)
(* imported and, when it was, how its call ended                              *)
(* variant: the except branch leaves tpr at its initial 0 *)
ComputeTPR_NoFallback(available, outcome, m, n, avg) ==
    IF available
    THEN IF outcome = "raise" THEN 0 ELSE OptimizerEPR(m, n, avg)
    ELSE ClosedFormTPR(m, n, avg)

ComputeTPR(available, outcome, m, n, avg) ==
    IF available
    THEN IF outcome = "raise" THEN avg ELSE OptimizerEPR(m, n, avg)
    ELSE ClosedFormTPR(m, n, avg)

(* ------------------------------------------------------------------ *)
(* Bounds and input domains                                            *)
(* ------------------------------------------------------------------ *)
MaxFiles == 2

MaxRows == 2

MaxGames == 4

TimeControls == << <<"c","l","a","s","s","i","c","a","l">>, <<"r","a","p","i","d">>, <<"b","l","i","t","z">> >>

FolderNames == { <<"m","y","_","o","p","e","n","-","2","0","2","4">> }

(* safe_float (lines 881-886) returns float("inf") for a cell that reads "inf": *)
(* Inf stands for it among the hundredths, above every finite value           *)
Inf == 100000000

FAdd(a, b) == IF a = Inf \/ b = Inf THEN Inf ELSE a + b

FDiv(a, k) == IF a = Inf THEN Inf ELSE a \div k

(* rows of the aggregated_game_data csv files; results in half points, the *)
(* quality index and missed points in hundredths; WhiteEloInf tells that   *)
(* the WhiteElo cell reads "inf", which float() accepts and int() rejects  *)
(* with an OverflowError that safe_int does not catch (lines 889-894)      *)
BaseRow ==
    [White |-> "A", Black |-> "B", WhiteResult |-> 2, BlackResult |-> 0,
     WhiteElo |-> 2400, BlackElo |-> 2000, WhiteEloInf |-> FALSE,
     WhiteGi |-> 6000, BlackGi |-> 4000, WhiteMp |-> 100, BlackMp |-> 300,
     Event |-> <<"C","u","p">>, Site |-> <<>>, Date |-> <<"2","0","2","4",".","0","3",".","0","1">>]

NamePairs == {<<"A", "B">>, <<"C", "A">>, <<"A", "">>, <<"", "B">>}

ResultPairs == {<<2, 0>>, <<1, 1>>, <<0, 2>>, <<0, 0>>}

EloPairs == {<<2400, 2000>>, <<0, 2000>>}

Metrics == {<<6000, 4000, 100, 300>>, <<0, 0, 0, 0>>, <<Inf, 4000, 100, 300>>}

EventSites == {<<<<"C","u","p">>, <<>> >>, <<<<"C","U","P">>, <<>> >>,
               <<<<"R","o","u","n","d"," ","1",":"," ","a"," ","-"," ","b">>, <<"l","i","c","h","e","s","s",".","o","r","g","/","b","r","o","a","d","c","a","s","t","/","c","u","p","/","r","1","/","x">>>>}

AllRows ==
    {[White |-> np[1], Black |-> np[2], WhiteResult |-> rp[1], BlackResult |-> rp[2],
      WhiteElo |-> ep[1], BlackElo |-> ep[2], WhiteEloInf |-> inf,
      WhiteGi |-> mt[1], BlackGi |-> mt[2], WhiteMp |-> mt[3], BlackMp |-> mt[4],
      Event |-> es[1], Site |-> es[2], Date |-> BaseRow.Date] :
        np \in NamePairs, rp \in ResultPairs, ep \in EloPairs, inf \in BOOLEAN,
        mt \in Metrics, es \in EventSites}

(* the rows that differ from BaseRow in at most one of: names, results, *)
(* ratings, event and site, metrics, unparsable rating                  *)
Rows ==
    {r \in AllRows :
        Cardinality({k \in 1..6 :
            \/ k = 1 /\ <<r.White, r.Black>> # <<BaseRow.White, BaseRow.Black>>
            \/ k = 2 /\ <<r.WhiteResult, r.BlackResult>>
                          # <<BaseRow.WhiteResult, BaseRow.BlackResult>>
            \/ k = 3 /\ <<r.WhiteElo, r.BlackElo>> # <<BaseRow.WhiteElo, BaseRow.BlackElo>>
            \/ k = 4 /\ <<r.Event, r.Site>> # <<BaseRow.Event, BaseRow.Site>>
            \/ k = 5 /\ <<r.WhiteGi, r.BlackGi, r.WhiteMp, r.BlackMp>>
                          # <<BaseRow.WhiteGi, BaseRow.BlackGi, BaseRow.WhiteMp, BaseRow.BlackMp>>
            \/ k = 6 /\ r.WhiteEloInf # BaseRow.WhiteEloInf}) <= 1}

(* ------------------------------------------------------------------ *)
(* load_tournament_data: per-player running totals (459-466, 516-550)  *)
(* ------------------------------------------------------------------ *)
Max(a, b) == IF a >= b THEN a ELSE b

(* variant: the factory counts a game before any row is folded *)
NewStats_OneGame(name) ==
    [name |-> name, games |-> 1, score |-> 0, elo |-> 0, gi_sum |-> 0, mp_sum |-> 0,
     opp_elo_sum |-> 0, wins |-> 0, draws |-> 0, losses |-> 0,
     white_games |-> 0, black_games |-> 0,
     white_gi_sum |-> 0, black_gi_sum |-> 0, white_mp_sum |-> 0, black_mp_sum |-> 0]

(* the defaultdict factory of player_stats, with the key kept in the record *)
NewStats(name) ==
    [name |-> name, games |-> 0, score |-> 0, elo |-> 0, gi_sum |-> 0, mp_sum |-> 0,
     opp_elo_sum |-> 0, wins |-> 0, draws |-> 0, losses |-> 0,
     white_games |-> 0, black_games |-> 0,
     white_gi_sum |-> 0, black_gi_sum |-> 0, white_mp_sum |-> 0, black_mp_sum |-> 0]

StatsIndex(ps, name) ==
    IF \E i \in 1..Len(ps) : ps[i].name = name
    THEN CHOOSE i \in 1..Len(ps) : ps[i].name = name
    ELSE 0

(* player_stats[name]: the entry is inserted on first access *)
Touch(ps, name) == IF StatsIndex(ps, name) = 0 THEN Append(ps, NewStats(name)) ELSE ps

(* "if white:" / "if black:" block for one side of one row *)
(* variant: a draw is counted neither as a draw nor as a loss *)
UpdateSide_NoDraw(ps, name, result, own_elo, opp_elo, gi, mp, is_white) ==
    IF name = "" THEN ps
    ELSE LET q == Touch(ps, name)
             i == StatsIndex(q, name)
         IN  [q EXCEPT ![i] =
                [@ EXCEPT !.games = @ + 1,
                          !.score = @ + result,
                          !.elo = Max(@, own_elo),
                          !.gi_sum = FAdd(@, gi),
                          !.mp_sum = FAdd(@, mp),
                          !.opp_elo_sum = @ + opp_elo,
                          !.white_games = IF is_white THEN @ + 1 ELSE @,
                          !.black_games = IF is_white THEN @ ELSE @ + 1,
                          !.white_gi_sum = IF is_white THEN FAdd(@, gi) ELSE @,
                          !.black_gi_sum = IF is_white THEN @ ELSE FAdd(@, gi),
                          !.white_mp_sum = IF is_white THEN FAdd(@, mp) ELSE @,
                          !.black_mp_sum = IF is_white THEN @ ELSE FAdd(@, mp),
                          !.wins = IF result = 2 THEN @ + 1 ELSE @,
                          !.losses = IF result = 0 THEN @ + 1 ELSE @]]

UpdateSide(ps, name, result, own_elo, opp_elo, gi, mp, is_white) ==
    IF name = "" THEN ps
    ELSE LET q == Touch(ps, name)
             i == StatsIndex(q, name)
         IN  [q EXCEPT ![i] =
                [@ EXCEPT !.games = @ + 1,
                          !.score = @ + result,
                          !.elo = Max(@, own_elo),
                          !.gi_sum = FAdd(@, gi),
                          !.mp_sum = FAdd(@, mp),
                          !.opp_elo_sum = @ + opp_elo,
                          !.white_games = IF is_white THEN @ + 1 ELSE @,
                          !.black_games = IF is_white THEN @ ELSE @ + 1,
                          !.white_gi_sum = IF is_white THEN FAdd(@, gi) ELSE @,
                          !.black_gi_sum = IF is_white THEN @ ELSE FAdd(@, gi),
                          !.white_mp_sum = IF is_white THEN FAdd(@, mp) ELSE @,
                          !.black_mp_sum = IF is_white THEN @ ELSE FAdd(@, mp),
                          !.wins = IF result = 2 THEN @ + 1 ELSE @,
                          !.draws = IF result = 1 THEN @ + 1 ELSE @,
                          !.losses = IF result \notin {1, 2} THEN @ + 1 ELSE @]]

(* variant: black is credited with white's result *)
UpdatePlayerStats_WhiteResult(ps, row) ==
    UpdateSide(UpdateSide(ps, row.White, row.WhiteResult, row.WhiteElo, row.BlackElo,
                          row.WhiteGi, row.WhiteMp, TRUE),
               row.Black, row.WhiteResult, row.BlackElo, row.WhiteElo,
               row.BlackGi, row.BlackMp, FALSE)

UpdatePlayerStats(ps, row) ==
    UpdateSide(UpdateSide(ps, row.White, row.WhiteResult, row.WhiteElo, row.BlackElo,
                          row.WhiteGi, row.WhiteMp, TRUE),
               row.Black, row.BlackResult, row.BlackElo, row.WhiteElo,
               row.BlackGi, row.BlackMp, FALSE)

(* lines 493-499 *)
ResultString(white_result, black_result) ==
    IF white_result = 2 THEN "1-0"
    ELSE IF black_result = 2 THEN "0-1"
    ELSE "1/2-1/2"

(* lines 501-513 *)
GameEntry(row, date) ==
    [white |-> row.White, black |-> row.Black,
     whiteElo |-> row.WhiteElo, blackElo |-> row.BlackElo,
     whiteGi |-> row.WhiteGi, blackGi |-> row.BlackGi,
     whiteMp |-> row.WhiteMp, blackMp |-> row.BlackMp,
     result |-> ResultString(row.WhiteResult, row.BlackResult), date |-> date]

(* sum / count "if count > 0 else 0", in hundredths *)
AvgOrZero(sum, count) == IF count > 0 THEN FDiv(sum, count) ELSE 0

(* lines 553-603: one finalized entry of player_stats_list *)
PlayerEntry(stats, available, outcome) ==
    [name |-> stats.name, games |-> stats.games, score |-> stats.score, elo |-> stats.elo,
     avgGi |-> FDiv(stats.gi_sum, stats.games), avgMp |-> FDiv(stats.mp_sum, stats.games),
     avgGiWhite |-> AvgOrZero(stats.white_gi_sum, stats.white_games),
     avgGiBlack |-> AvgOrZero(stats.black_gi_sum, stats.black_games),
     avgMpWhite |-> AvgOrZero(stats.white_mp_sum, stats.white_games),
     avgMpBlack |-> AvgOrZero(stats.black_mp_sum, stats.black_games),
     tpr |-> ComputeTPR(available, outcome, stats.score, stats.games,
                        AvgOppElo(stats.opp_elo_sum, stats.games)),
     wins |-> stats.wins, draws |-> stats.draws, losses |-> stats.losses,
     whiteGames |-> stats.white_games, blackGames |-> stats.black_games]

(* variant: ties on the score are broken by the lower estimate *)
SortsBefore_TprAscending(a, b) == a.score > b.score \/ (a.score = b.score /\ a.tpr < b.tpr)

(* line 606: list.sort(key=lambda x: (-x['score'], -x['tpr'])), a stable sort *)
SortsBefore(a, b) == a.score > b.score \/ (a.score = b.score /\ a.tpr > b.tpr)

RECURSIVE InsertSorted(_, _)
InsertSorted(sorted, x) ==
    IF sorted = <<>> THEN <<x>>
    ELSE IF SortsBefore(x, sorted[1]) THEN <<x>> \o sorted
    ELSE <<sorted[1]>> \o InsertSorted(Tail(sorted), x)

RECURSIVE SortPlayers(_)
SortPlayers(list) ==
    IF list = <<>> THEN <<>>
    ELSE InsertSorted(SortPlayers(SubSeq(list, 1, Len(list) - 1)), list[Len(list)])

FinalizePlayers(ps, available, outcomes) ==
    SortPlayers([i \in 1..Len(ps) |-> PlayerEntry(ps[i], available, outcomes[ps[i].name])])

(* tournament_games[tournament_name].append(row) on an insertion-ordered dict *)
GroupIndex(tg, name) ==
    IF \E i \in 1..Len(tg) : tg[i].name = name
    THEN CHOOSE i \in 1..Len(tg) : tg[i].name = name
    ELSE 0

AppendToGroup(tg, name, row) ==
    IF GroupIndex(tg, name) = 0 THEN Append(tg, [name |-> name, rows |-> <<row>>])
    ELSE [tg EXCEPT ![GroupIndex(tg, name)].rows = Append(@, row)]

(* tournaments[full_tournament_id] = {...} (614-626) *)
TournamentIndex(ts, id) ==
    IF \E i \in 1..Len(ts) : ts[i].id = id
    THEN CHOOSE i \in 1..Len(ts) : ts[i].id = id
    ELSE 0

StoreTournament(ts, entry) ==
    IF TournamentIndex(ts, entry.id) = 0 THEN Append(ts, entry)
    ELSE [ts EXCEPT ![TournamentIndex(ts, entry.id)] = entry]

(* ------------------------------------------------------------------ *)
(* calculate_tournament_summary_stats (build_site.py 176-232)          *)
(* values are integers in hundredths, the precision of round(x, 2)     *)
(* ------------------------------------------------------------------ *)
RECURSIVE SumSeq(_)
SumSeq(values) == IF values = <<>> THEN 0 ELSE FAdd(values[1], SumSeq(Tail(values)))

RECURSIVE InsertValue(_, _)
InsertValue(sorted, v) ==
    IF sorted = <<>> THEN <<v>>
    ELSE IF v < sorted[1] THEN <<v>> \o sorted
    ELSE <<sorted[1]>> \o InsertValue(Tail(sorted), v)

RECURSIVE SortValues(_)
SortValues(values) ==
    IF values = <<>> THEN <<>>
    ELSE InsertValue(SortValues(Tail(values)), values[1])

(* statistics.median: the middle value, or the mean of the two middle values *)
Median(values) ==
    LET s == SortValues(values)
        k == Len(s)
    IN  IF k % 2 = 1 THEN s[(k + 1) \div 2]
        ELSE FDiv(FAdd(s[k \div 2], s[k \div 2 + 1]), 2)

Abs(x) == IF x < 0 THEN 0 - x ELSE x

(* the largest r in lo..hi-1 with r * r <= x *)
RECURSIVE SqrtBetween(_, _, _)
SqrtBetween(x, lo, hi) ==
    IF hi - lo <= 1 THEN lo
    ELSE LET mid == (lo + hi) \div 2
         IN  IF mid * mid <= x THEN SqrtBetween(x, mid, hi) ELSE SqrtBetween(x, lo, mid)

ISqrt(x) == SqrtBetween(x, 0, 46341)

(* statistics.stdev, the sample (n - 1) deviation; the deviations are squared *)
(* in tenths, so the result has one decimal place                             *)
Stdev(values) ==
    LET k == Len(values)
        total == SumSeq(values)
        dev(i) == Abs(values[i] * k - total) \div (10 * k)
    IN  10 * ISqrt(SumSeq([i \in 1..k |-> dev(i) * dev(i)]) \div (k - 1))

(* statistics.stdev of CPython 3.11 raises AttributeError ('float' object has no *)
(* attribute 'numerator') when one of two or more values is not finite          *)
StdevRaises(values) == Len(values) > 1 /\ \E i \in 1..Len(values) : values[i] = Inf

ZeroStats == [mean |-> 0, median |-> 0, std |-> 0, min |-> 0, max |-> 0]

(* lines 180-201; None is never among the values the caller collects *)
calc_stats(values) ==
    IF values = <<>> THEN ZeroStats
    ELSE [mean |-> FDiv(SumSeq(values), Len(values)),
          median |-> Median(values),
          std |-> IF Len(values) > 1 THEN Stdev(values) ELSE 0,
          min |-> SortValues(values)[1],
          max |-> SortValues(values)[Len(values)]]

(* [x.get(k, 0) for x in items if x.get(k)]: the values that are truthy *)
Truthy(values) == SelectSeq(values, LAMBDA v : v # 0)

Column(items, field) == [i \in 1..Len(items) |-> items[i][field]]

(* elo is an integer number of points; the other metrics are in hundredths *)
InHundredths(values) == [i \in 1..Len(values) |-> 100 * values[i]]

(* lines 203-217 and the arguments of the calls at 222-229 *)
SummaryValues(players, games) ==
    LET gi_values == Truthy(Column(players, "avgGi"))
        mp_values == Truthy(Column(players, "avgMp"))
        elo_values == Truthy(InHundredths(Column(players, "elo")))
        tpr_values == Truthy(Column(players, "tpr"))
        white_gi == Truthy(Column(games, "whiteGi"))
        black_gi == Truthy(Column(games, "blackGi"))
        white_mp == Truthy(Column(games, "whiteMp"))
        black_mp == Truthy(Column(games, "blackMp"))
        all_gi == white_gi \o black_gi
        all_mp == white_mp \o black_mp
    IN  [avgGi |-> IF gi_values # <<>> THEN gi_values ELSE all_gi,
         avgMissedPoints |-> IF mp_values # <<>> THEN mp_values ELSE all_mp,
         avgGiWhite |-> white_gi,
         avgGiBlack |-> black_gi,
         avgMpWhite |-> white_mp,
         avgMpBlack |-> black_mp,
         elo |-> elo_values,
         tpr |-> tpr_values]

MetricKeys == DOMAIN SummaryValues(<<>>, <<>>)

(* whether one of the calc_stats calls of lines 222-229 raises *)
SummaryRaises(players, games) ==
    \E k \in MetricKeys : StdevRaises(SummaryValues(players, games)[k])

(* lines 219-232 *)
calculate_tournament_summary_stats(players, games) ==
    LET values == SummaryValues(players, games)
    IN  [totalGames |-> Len(games),
         totalPlayers |-> Len(players),
         avgGi |-> calc_stats(values.avgGi),
         avgMissedPoints |-> calc_stats(values.avgMissedPoints),
         avgGiWhite |-> calc_stats(values.avgGiWhite),
         avgGiBlack |-> calc_stats(values.avgGiBlack),
         avgMpWhite |-> calc_stats(values.avgMpWhite),
         avgMpBlack |-> calc_stats(values.avgMpBlack),
         elo |-> calc_stats(values.elo),
         tpr |-> calc_stats(values.tpr)]

(* ------------------------------------------------------------------ *)
(* State                                                               *)
(* ------------------------------------------------------------------ *)
VARIABLES
    (* load_tournament_data *)
    pc,                 \* position in load_tournament_data
    file_no,            \* csv files opened so far
    rows_read,          \* rows read so far, over all files
    time_control,       \* time control of the directory of the current file
    folder_name,        \* csv_path.parent.name of the current file
    tournament_games,   \* first pass: tournament name -> rows, in insertion order
    group_idx,          \* second pass: position in tournament_games.items()
    row_idx,            \* second pass: position in the rows of the group
    games_list,
    player_stats,
    first_date,
    player_stats_list,
    epr_available,      \* whether epr_calculator was imported (lines 44-50)
    epr_outcome,        \* how the optimizer call ended, per player of the last group
    tournaments,
    error,              \* the exception caught at line 630, "" outside the clause
    tournaments_at_open, \* history: tournaments when the current file was opened
    (* classification of one row, and the identity of its group *)
    event, site, cls_folder, cls_dir, cls_pc,
    tournament_name, is_pairing, first_pairing, actual_time_control, full_tournament_id,
    (* closed-form estimate of one player *)
    m, n, avg_opp_elo, tpr, est_pc,
    (* main() after load_tournament_data *)
    roll_pc,            \* position in main()
    now_year,           \* datetime.now().year
    player_tournaments, \* player name -> participations, in insertion order
    tpr_year,
    roll_idx,           \* tournaments scanned so far by generate_yearly_tpr_data
    yearly_player_data, \* (year, timeControl) and player -> bucket, in insertion order
    yearly_tpr,
    (* update_review_from_issue.main *)
    rev_pc,             \* position in main()
    body,               \* ISSUE_BODY, as its lines
    lists_readable,     \* whether the csv files of lists/ can be opened
    problem_type_raw, problem_type, problem_id, verdict, explanation,
    citations_value, discussion_link, citations,
    rev_error,          \* the message of SystemExit or the exception raised, "" if none
    review_files        \* reviews/: the set of <<problem type, problem id, content>>

loadVars == <<pc, file_no, rows_read, time_control, folder_name, tournament_games,
              group_idx, row_idx, games_list, player_stats, first_date,
              player_stats_list, epr_available, epr_outcome, tournaments,
              error, tournaments_at_open>>

clsVars == <<event, site, cls_folder, cls_dir, cls_pc, tournament_name, is_pairing,
             first_pairing, actual_time_control, full_tournament_id>>

estVars == <<m, n, avg_opp_elo, tpr, est_pc>>

rollVars == <<roll_pc, now_year, player_tournaments, tpr_year, roll_idx,
              yearly_player_data, yearly_tpr>>

revVars == <<rev_pc, body, lists_readable, problem_type_raw, problem_type, problem_id,
             verdict, explanation, citations_value, discussion_link, citations,
             rev_error, review_files>>

vars == <<loadVars, clsVars, estVars, rollVars, revVars>>

LoadIdle ==
    /\ pc = "idle" /\ file_no = 0 /\ rows_read = 0
    /\ time_control = TimeControls[1] /\ folder_name = <<>>
    /\ tournament_games = <<>> /\ group_idx = 0 /\ row_idx = 0
    /\ games_list = <<>> /\ player_stats = <<>> /\ first_date = <<>>
    /\ player_stats_list = <<>> /\ epr_outcome = <<>> /\ tournaments = <<>>
    /\ error = "" /\ tournaments_at_open = <<>>

ClsIdle ==
    /\ event = <<>> /\ site = <<>> /\ cls_folder = <<>> /\ cls_dir = <<>>
    /\ cls_pc = "off" /\ tournament_name = <<>> /\ is_pairing = FALSE
    /\ first_pairing = FALSE /\ actual_time_control = <<>> /\ full_tournament_id = <<>>

EstIdle == m = 0 /\ n = 0 /\ avg_opp_elo = 0 /\ tpr = 0 /\ est_pc = "off"

RollIdle ==
    /\ roll_pc = "off" /\ now_year = 0 /\ player_tournaments = <<>> /\ tpr_year = <<>>
    /\ roll_idx = 0 /\ yearly_player_data = <<>> /\ yearly_tpr = <<>>

RevIdle ==
    /\ rev_pc = "off" /\ body = <<>> /\ lists_readable = TRUE
    /\ problem_type_raw = <<>> /\ problem_type = <<>> /\ problem_id = <<>>
    /\ verdict = <<>> /\ explanation = <<>> /\ citations_value = <<>>
    /\ discussion_link = <<>> /\ citations = <<>>
    /\ rev_error = "" /\ review_files = {}

(* ------------------------------------------------------------------ *)
(* load_tournament_data (build_site.py 381-637)                        *)
(* ------------------------------------------------------------------ *)
(* epr_calculator is not among the sources built here: the import at lines *)
(* 44-50 fails and optimize_w, calculate_EPR and adjust_mn are None        *)
Init ==
    /\ LoadIdle /\ ClsIdle /\ EstIdle /\ RollIdle /\ RevIdle
    /\ epr_available = FALSE

TcRank(tc) == CHOOSE i \in DOMAIN TimeControls : TimeControls[i] = tc

CurrentGroup == tournament_games[group_idx]

(* lines 398-413: the next csv file, directories in classical, rapid, blitz order *)
StartFile ==
    /\ pc = "idle"
    /\ file_no < MaxFiles
    /\ \E i \in DOMAIN TimeControls : \E fn \in FolderNames :
          /\ i >= TcRank(time_control)
          /\ time_control' = TimeControls[i]
          /\ folder_name' = fn
    /\ file_no' = file_no + 1
    /\ tournament_games' = <<>>
    /\ tournaments_at_open' = tournaments
    /\ pc' = "read"
    /\ UNCHANGED <<rows_read, group_idx, row_idx, games_list, player_stats, first_date,
                   player_stats_list, epr_available, epr_outcome, tournaments, error>>
    /\ UNCHANGED <<clsVars, estVars, rollVars, revVars>>

(* lines 417-433: one row of the first pass *)
ReadRowFrom(rows) ==
    /\ pc = "read"
    /\ rows_read < MaxRows
    /\ \E row \in rows :
          tournament_games' =
              AppendToGroup(tournament_games,
                            RowTournamentName(row.Event, row.Site, folder_name), row)
    /\ rows_read' = rows_read + 1
    /\ UNCHANGED <<pc, file_no, time_control, folder_name, group_idx, row_idx, games_list,
                   player_stats, first_date, player_stats_list, epr_available,
                   epr_outcome, tournaments,
                   error, tournaments_at_open>>
    /\ UNCHANGED <<clsVars, estVars, rollVars, revVars>>

ReadRow == ReadRowFrom(Rows)

(* end of the csv file: the second pass starts with the first group *)
EndRead ==
    /\ pc = "read"
    /\ pc' = "group"
    /\ group_idx' = 1
    /\ UNCHANGED <<file_no, rows_read, time_control, folder_name, tournament_games, row_idx,
                   games_list, player_stats, first_date, player_stats_list, epr_available,
                   epr_outcome, tournaments,
                   error, tournaments_at_open>>
    /\ UNCHANGED <<clsVars, estVars, rollVars, revVars>>

(* lines 438-470: the next group of the second pass, or the end of the file *)
BeginGroup ==
    /\ pc = "group"
    /\ IF group_idx <= Len(tournament_games)
       THEN /\ pc' = "fold"
            /\ row_idx' = 1
            /\ games_list' = <<>>
            /\ player_stats' = <<>>
            /\ first_date' = <<>>
       ELSE /\ pc' = "idle"
            /\ UNCHANGED <<row_idx, games_list, player_stats, first_date>>
    /\ UNCHANGED <<file_no, rows_read, time_control, folder_name, tournament_games,
                   group_idx, player_stats_list, epr_available, epr_outcome, tournaments,
                   error, tournaments_at_open>>
    /\ UNCHANGED <<clsVars, estVars, rollVars, revVars>>

(* variant: a row with a missing name is not appended to the games list *)
FoldRow_SkipsUnnamed ==
    /\ pc = "fold"
    /\ row_idx <= Len(CurrentGroup.rows)
    /\ ~CurrentGroup.rows[row_idx].WhiteEloInf
    /\ LET row == CurrentGroup.rows[row_idx]
           date == IF first_date = <<>> THEN row.Date ELSE first_date
       IN  /\ first_date' = date
           /\ games_list' = IF row.White = "" \/ row.Black = "" THEN games_list
                            ELSE Append(games_list, GameEntry(row, date))
           /\ player_stats' = UpdatePlayerStats(player_stats, row)
    /\ row_idx' = row_idx + 1
    /\ UNCHANGED <<pc, file_no, rows_read, time_control, folder_name, tournament_games,
                   group_idx, player_stats_list, epr_available, epr_outcome, tournaments,
                   error, tournaments_at_open>>
    /\ UNCHANGED <<clsVars, estVars, rollVars, revVars>>

(* lines 472-550: one row of the group *)
FoldRow ==
    /\ pc = "fold"
    /\ row_idx <= Len(CurrentGroup.rows)
    /\ ~CurrentGroup.rows[row_idx].WhiteEloInf
    /\ LET row == CurrentGroup.rows[row_idx]
           date == IF first_date = <<>> THEN row.Date ELSE first_date
       IN  /\ first_date' = date
           /\ games_list' = Append(games_list, GameEntry(row, date))
           /\ player_stats' = UpdatePlayerStats(player_stats, row)
    /\ row_idx' = row_idx + 1
    /\ UNCHANGED <<pc, file_no, rows_read, time_control, folder_name, tournament_games,
                   group_idx, player_stats_list, epr_available, epr_outcome, tournaments,
                   error, tournaments_at_open>>
    /\ UNCHANGED <<clsVars, estVars, rollVars, revVars>>

(* line 477: safe_int lets the OverflowError of int(float("inf")) through, and *)
(* the except clause of line 630 is entered with the groups stored so far     *)
FoldRaises ==
    /\ pc = "fold"
    /\ row_idx <= Len(CurrentGroup.rows)
    /\ CurrentGroup.rows[row_idx].WhiteEloInf
    /\ error' = "OverflowError"
    /\ pc' = "except"
    /\ UNCHANGED <<file_no, rows_read, time_control, folder_name, tournament_games,
                   group_idx, row_idx, games_list, player_stats, first_date,
                   player_stats_list, epr_available, epr_outcome, tournaments,
                   tournaments_at_open>>
    /\ UNCHANGED <<clsVars, estVars, rollVars, revVars>>

(* lines 415-417: open() fails, or the header line is not valid utf-8 *)
ReadRaises ==
    /\ pc = "read"
    /\ tournament_games = <<>>
    /\ error' = "OSError"
    /\ pc' = "except"
    /\ UNCHANGED <<file_no, rows_read, time_control, folder_name, tournament_games,
                   group_idx, row_idx, games_list, player_stats, first_date,
                   player_stats_list, epr_available, epr_outcome, tournaments,
                   tournaments_at_open>>
    /\ UNCHANGED <<clsVars, estVars, rollVars, revVars>>

(* lines 630-634: the warning is printed and the loop continues with the next file *)
SkipFile ==
    /\ pc = "except"
    /\ error' = ""
    /\ pc' = "idle"
    /\ UNCHANGED <<file_no, rows_read, time_control, folder_name, tournament_games,
                   group_idx, row_idx, games_list, player_stats, first_date,
                   player_stats_list, epr_available, epr_outcome, tournaments,
                   tournaments_at_open>>
    /\ UNCHANGED <<clsVars, estVars, rollVars, revVars>>

StatsNames(ps) == {ps[i].name : i \in 1..Len(ps)}

(* variant: the group is finalized when its last row is still to be folded *)
FinalizeGroup_BeforeLastRow ==
    /\ pc = "fold"
    /\ row_idx >= Len(CurrentGroup.rows)
    /\ \E outcomes \in [StatsNames(player_stats) ->
                           IF epr_available THEN OptimizerOutcomes ELSE {"unused"}] :
          /\ epr_outcome' = outcomes
          /\ player_stats_list' = FinalizePlayers(player_stats, epr_available, outcomes)
    /\ ~SummaryRaises(player_stats_list', games_list)
    /\ tournaments' =
          StoreTournament(tournaments,
              [id |-> FullTournamentId(CurrentGroup.name, time_control),
               name |-> CurrentGroup.name,
               date |-> first_date,
               games |-> Len(games_list),
               players |-> Len(player_stats),
               playerStats |-> player_stats_list',
               gamesList |-> games_list,
               timeControl |-> ActualTimeControl(CurrentGroup.name, time_control),
               summaryStats |->
                   calculate_tournament_summary_stats(player_stats_list', games_list)])
    /\ group_idx' = group_idx + 1
    /\ pc' = "group"
    /\ UNCHANGED <<file_no, rows_read, time_control, folder_name, tournament_games, row_idx,
                   games_list, player_stats, first_date, epr_available,
                   error, tournaments_at_open>>
    /\ UNCHANGED <<clsVars, estVars, rollVars, revVars>>

(* lines 552-626: estimates, standings and the entry of the group in tournaments *)
FinalizeGroup ==
    /\ pc = "fold"
    /\ row_idx > Len(CurrentGroup.rows)
    /\ \E outcomes \in [StatsNames(player_stats) ->
                           IF epr_available THEN OptimizerOutcomes ELSE {"unused"}] :
          /\ epr_outcome' = outcomes
          /\ player_stats_list' = FinalizePlayers(player_stats, epr_available, outcomes)
    /\ ~SummaryRaises(player_stats_list', games_list)
    /\ tournaments' =
          StoreTournament(tournaments,
              [id |-> FullTournamentId(CurrentGroup.name, time_control),
               name |-> CurrentGroup.name,
               date |-> first_date,
               games |-> Len(games_list),
               players |-> Len(player_stats),
               playerStats |-> player_stats_list',
               gamesList |-> games_list,
               timeControl |-> ActualTimeControl(CurrentGroup.name, time_control),
               summaryStats |->
                   calculate_tournament_summary_stats(player_stats_list', games_list)])
    /\ group_idx' = group_idx + 1
    /\ pc' = "group"
    /\ UNCHANGED <<file_no, rows_read, time_control, folder_name, tournament_games, row_idx,
                   games_list, player_stats, first_date, epr_available,
                   error, tournaments_at_open>>
    /\ UNCHANGED <<clsVars, estVars, rollVars, revVars>>

(* lines 552-609: the standings are built, then a calc_stats call of the summary *)
(* raises and the group is not stored                                           *)
FinalizeRaises ==
    /\ pc = "fold"
    /\ row_idx > Len(CurrentGroup.rows)
    /\ \E outcomes \in [StatsNames(player_stats) ->
                           IF epr_available THEN OptimizerOutcomes ELSE {"unused"}] :
          /\ epr_outcome' = outcomes
          /\ player_stats_list' = FinalizePlayers(player_stats, epr_available, outcomes)
    /\ SummaryRaises(player_stats_list', games_list)
    /\ error' = "AttributeError"
    /\ pc' = "except"
    /\ UNCHANGED <<file_no, rows_read, time_control, folder_name, tournament_games,
                   group_idx, row_idx, games_list, player_stats, first_date,
                   epr_available, tournaments, tournaments_at_open>>
    /\ UNCHANGED <<clsVars, estVars, rollVars, revVars>>

(* line 637: return tournaments *)
Finish ==
    /\ pc = "idle"
    /\ pc' = "done"
    /\ UNCHANGED <<file_no, rows_read, time_control, folder_name, tournament_games,
                   group_idx, row_idx, games_list, player_stats, first_date,
                   player_stats_list, epr_available, epr_outcome, tournaments,
                   error, tournaments_at_open>>
    /\ UNCHANGED <<clsVars, estVars, rollVars, revVars>>

Next ==
    \/ StartFile
    \/ ReadRow
    \/ EndRead
    \/ BeginGroup
    \/ FoldRow
    \/ FoldRaises
    \/ ReadRaises
    \/ SkipFile
    \/ FinalizeGroup
    \/ FinalizeRaises
    \/ Finish

Spec == Init /\ [][Next]_vars

(* the same build when the import of epr_calculator succeeded *)
InitOptimizer ==
    /\ LoadIdle /\ ClsIdle /\ EstIdle /\ RollIdle /\ RevIdle
    /\ epr_available = TRUE

(* the rows that differ from BaseRow only in what the estimate reads, or in *)
(* what makes the file fail, and whose results add up to one point         *)
RatedRows ==
    {r \in Rows :
        /\ r.WhiteResult + r.BlackResult = 2
        /\ <<r.White, r.Black>> = <<BaseRow.White, BaseRow.Black>>
        /\ <<r.Event, r.Site>> = <<BaseRow.Event, BaseRow.Site>>
        /\ <<r.BlackGi, r.WhiteMp, r.BlackMp>>
              = <<BaseRow.BlackGi, BaseRow.WhiteMp, BaseRow.BlackMp>>}

ReadRatedRow == ReadRowFrom(RatedRows)

NextOptimizer ==
    \/ StartFile
    \/ ReadRatedRow
    \/ EndRead
    \/ BeginGroup
    \/ FoldRow
    \/ FoldRaises
    \/ ReadRaises
    \/ SkipFile
    \/ FinalizeGroup
    \/ FinalizeRaises
    \/ Finish

SpecOptimizer == InitOptimizer /\ [][NextOptimizer]_vars

(* ------------------------------------------------------------------ *)
(* Classification of one row and identity of its group, as a function  *)
(* of the event label, the site url, the folder and the directory      *)
(* ------------------------------------------------------------------ *)
ClsEvents ==
    { <<>>,
      <<"R","o","u","n","d"," ","5",":"," ","S","m","i","t","h",","," ","J","o","h","n"," ","-"," ","D","o","e",","," ","J","a","n","e">>,
      <<"S","m","i","t","h",","," ","J","o","h","n"," ","-"," ","D","o","e",","," ","J","a","n","e">>,
      <<"F","i","n","a","l","s"," ","|"," ","G","a","m","e"," ","1",":"," ","a"," ","-"," ","b">>,
      <<"A","e","r","o","f","l","o","t"," ","O","p","e","n"," ","2","0","2","5">>,
      <<"W","o","r","l","d"," ","R","a","p","i","d"," ","B","l","i","t","z"," ","2","0","2","4">>,
      <<"T","i","t","l","e","d"," ","B","L","I","T","Z"," ","A","r","e","n","a">>,
      <<"R","a","p","i","d"," ","C","u","p">> }

ClsSites ==
    { <<>>,
      <<"h","t","t","p","s",":","/","/","l","i","c","h","e","s","s",".","o","r","g","/","b","r","o","a","d","c","a","s","t","/","a","e","r","o","f","l","o","t","-","o","p","e","n","-","2","0","2","5","/","r","o","u","n","d","-","5","/","a","b","c","1","2","3">>,
      <<"h","t","t","p","s",":","/","/","l","i","c","h","e","s","s",".","o","r","g","/","b","r","o","a","d","c","a","s","t","/","f","i","d","e","-","g","r","a","n","d","-","s","w","i","s","s","-","2","0","2","5","-","-","o","p","e","n","/","r","1","/","x","1">>,
      <<"h","t","t","p","s",":","/","/","l","i","c","h","e","s","s",".","o","r","g","/","b","r","o","a","d","c","a","s","t","/","w","o","r","l","d","-","r","a","p","i","d","-","a","n","d","-","b","l","i","t","z","/","r","1","/","x","1">>,
      <<"h","t","t","p","s",":","/","/","l","i","c","h","e","s","s",".","o","r","g","/","b","r","o","a","d","c","a","s","t","/","r","o","u","n","d","-","5",":","-","b","l","i","t","z","/","r","1","/","x","1">>,
      <<"h","t","t","p","s",":","/","/","l","i","c","h","e","s","s",".","o","r","g","/","b","r","o","a","d","c","a","s","t","/","-","/","r","1","/","x","1">>,
      <<"h","t","t","p","s",":","/","/","l","i","c","h","e","s","s",".","o","r","g","/","t","i","t","l","e","d","-","b","l","i","t","z","-","2","0","2","4","/","g","a","m","e","I","d","1","2">>,
      <<"h","t","t","p","s",":","/","/","l","i","c","h","e","s","s",".","o","r","g","/","a","b","c","d","e","f","g","h","/","b","l","a","c","k">> }

ClsFolders == { <<"m","y","_","o","p","e","n","-","2","0","2","4">>, <<"r","a","p","i","d","-","c","u","p">> }

InitClassify ==
    /\ LoadIdle /\ EstIdle /\ RollIdle /\ RevIdle
    /\ epr_available = FALSE
    /\ event \in ClsEvents
    /\ site \in ClsSites
    /\ cls_folder \in ClsFolders
    /\ cls_dir \in Range(TimeControls)
    /\ cls_pc = "input"
    /\ tournament_name = <<>> /\ is_pairing = FALSE /\ first_pairing = FALSE
    /\ actual_time_control = <<>> /\ full_tournament_id = <<>>

(* lines 418-431 and 441-456 applied to the label e *)
ClassifyAs(e) ==
    /\ is_pairing' = RowIsPairing(e)
    /\ tournament_name' = RowTournamentName(e, site, cls_folder)
    /\ actual_time_control' = ActualTimeControl(tournament_name', cls_dir)
    /\ full_tournament_id' = FullTournamentId(tournament_name', cls_dir)

Classify ==
    /\ cls_pc = "input"
    /\ ClassifyAs(event)
    /\ first_pairing' = is_pairing'
    /\ cls_pc' = "classified"
    /\ UNCHANGED <<event, site, cls_folder, cls_dir>>
    /\ UNCHANGED <<loadVars, estVars, rollVars, revVars>>

(* the name obtained is fed back as the event label of a row *)
Reclassify ==
    /\ cls_pc = "classified"
    /\ event' = tournament_name
    /\ ClassifyAs(tournament_name)
    /\ cls_pc' = "reclassified"
    /\ UNCHANGED <<site, cls_folder, cls_dir, first_pairing>>
    /\ UNCHANGED <<loadVars, estVars, rollVars, revVars>>

NextClassify == Classify \/ Reclassify

SpecClassify == InitClassify /\ [][NextClassify]_vars

(* ------------------------------------------------------------------ *)
(* The closed-form estimate as a function of score, games and average  *)
(* opponent rating                                                     *)
(* ------------------------------------------------------------------ *)
AvgOppElos == {0, 150000, 200000, 266667}

InitEstimate ==
    /\ LoadIdle /\ ClsIdle /\ RollIdle /\ RevIdle
    /\ epr_available = FALSE
    /\ n \in 1..MaxGames
    /\ m \in 0..(2 * n)
    /\ avg_opp_elo \in AvgOppElos
    /\ tpr = 0
    /\ est_pc = "input"

(* lines 579-583 *)
EstimateRating ==
    /\ est_pc = "input"
    /\ tpr' = ClosedFormTPR(m, n, avg_opp_elo)
    /\ est_pc' = "done"
    /\ UNCHANGED <<m, n, avg_opp_elo>>
    /\ UNCHANGED <<loadVars, clsVars, rollVars, revVars>>

NextEstimate == EstimateRating

SpecEstimate == InitEstimate /\ [][NextEstimate]_vars


(* ------------------------------------------------------------------ *)
(* main() after load_tournament_data: build_player_tournaments,        *)
(* generate_tpr_year_data, generate_yearly_tpr_data (lines 922-966)    *)
(* ------------------------------------------------------------------ *)
MaxRollupRows == 5

(* the rows of the csv file the rollup is run on: a decisive game, a draw  *)
(* against an unrated player, a game without the black name, a row of a   *)
(* tournament without a date, a row of a tournament with unknown date and *)
(* a game that gave neither side a point                                   *)
RollupRowList ==
    <<BaseRow,
      [BaseRow EXCEPT !.WhiteResult = 0, !.BlackResult = 0],
      [BaseRow EXCEPT !.WhiteResult = 1, !.BlackResult = 1, !.BlackElo = 0],
      [BaseRow EXCEPT !.Black = ""],
      [BaseRow EXCEPT !.Event = <<"O","p","e","n"," ","1","9","9","9"," ","2","0","2","3">>, !.Date = <<>>],
      [BaseRow EXCEPT !.Date = <<"?","?","?","?",".","?","?",".","?","?">>]>>

RollupRows == {RollupRowList[i] : i \in DOMAIN RollupRowList}

NowYears == {2025, 2026}

(* lines 417-433 over the rows of a file *)
RECURSIVE GroupRows(_, _, _)
GroupRows(tg, rows, folder) ==
    IF rows = <<>> THEN tg
    ELSE GroupRows(AppendToGroup(tg, RowTournamentName(rows[1].Event, rows[1].Site, folder),
                                 rows[1]),
                   Tail(rows), folder)

(* lines 472-550 over the rows of a group *)
RECURSIVE FoldRows(_, _)
FoldRows(acc, rows) ==
    IF rows = <<>> THEN acc
    ELSE LET row == rows[1]
             date == IF acc.first_date = <<>> THEN row.Date ELSE acc.first_date
         IN  FoldRows([games_list |-> Append(acc.games_list, GameEntry(row, date)),
                       player_stats |-> UpdatePlayerStats(acc.player_stats, row),
                       first_date |-> date],
                      Tail(rows))

(* lines 438-626 for one group, without the optimizer *)
GroupEntry(group, tc) ==
    LET acc == FoldRows([games_list |-> <<>>, player_stats |-> <<>>, first_date |-> <<>>],
                        group.rows)
        list == FinalizePlayers(acc.player_stats, FALSE,
                                [nm \in StatsNames(acc.player_stats) |-> "unused"])
    IN  [id |-> FullTournamentId(group.name, tc),
         name |-> group.name,
         date |-> acc.first_date,
         games |-> Len(acc.games_list),
         players |-> Len(acc.player_stats),
         playerStats |-> list,
         gamesList |-> acc.games_list,
         timeControl |-> ActualTimeControl(group.name, tc),
         summaryStats |-> calculate_tournament_summary_stats(list, acc.games_list)]

RECURSIVE StoreGroups(_, _, _)
StoreGroups(ts, groups, tc) ==
    IF groups = <<>> THEN ts
    ELSE StoreGroups(StoreTournament(ts, GroupEntry(groups[1], tc)), Tail(groups), tc)

(* load_tournament_data on one file of finite rows *)
LoadRows(rows, tc, folder) == StoreGroups(<<>>, GroupRows(<<>>, rows, folder), tc)

(* ---- the year of a tournament ---- *)
DigitChars == <<"0","1","2","3","4","5","6","7","8","9">>

RECURSIVE str_to_int(_)
str_to_int(s) ==
    IF s = <<>> THEN 0
    ELSE 10 * str_to_int(SubSeq(s, 1, Len(s) - 1)) + IndexOf(DigitChars, s[Len(s)]) - 1

(* lines 646-650 and 694-698: int() of the text before the first dot; None, *)
(* here 0 which "if not year" treats alike, when the date is empty or int() *)
(* raises                                                                   *)
YearOfDate(date) ==
    IF date = <<>> THEN 0
    ELSE IF str_isdigit(str_split(date, ".")[1]) THEN str_to_int(str_split(date, ".")[1])
    ELSE 0

(* lines 654-658 and 700-704 *)
RECURSIVE FirstYearPart(_)
FirstYearPart(parts) ==
    IF parts = <<>> THEN 0
    ELSE IF str_isdigit(parts[1]) /\ Len(parts[1]) = 4 THEN str_to_int(parts[1])
    ELSE FirstYearPart(Tail(parts))

(* lines 660-661 and 706-707 *)
DefaultYear == 2025

(* lines 644-661 and 692-708 *)
RollupYear(tournament_id, date) ==
    LET from_date == YearOfDate(date)
        year == IF from_date = 0 THEN FirstYearPart(str_split(tournament_id, "-"))
                ELSE from_date
    IN  IF year = 0 THEN DefaultYear ELSE year

(* ---- build_player_tournaments (lines 806-862) ---- *)
WordSet == AlnumSet \cup {"_"}

(* re.search(r'\b(20\d{2})\b', name): the start of the first match, or 0 *)
YearMatch(name) ==
    LET starts == {i \in 1..Len(name) :
                      /\ HasAt(name, i, <<"2","0">>)
                      /\ i + 3 <= Len(name)
                      /\ name[i + 2] \in DigitSet /\ name[i + 3] \in DigitSet
                      /\ (i = 1 \/ name[i - 1] \notin WordSet)
                      /\ (i + 3 = Len(name) \/ name[i + 4] \notin WordSet)}
    IN  IF starts = {} THEN 0 ELSE CHOOSE i \in starts : \A j \in starts : i <= j

(* lines 817-831; the dates of RollupRows that pass the test of line 823 *)
(* start with four digits                                                *)
ParticipationYear(name, date, now) ==
    LET from_date == IF date # <<>> /\ Len(date) >= 4 /\ ~HasAt(date, 1, <<"?","?","?","?">>)
                     THEN str_to_int(SubSeq(date, 1, 4))
                     ELSE 0
        year == IF from_date = 0 /\ YearMatch(name) # 0
                THEN str_to_int(SubSeq(name, YearMatch(name), YearMatch(name) + 3))
                ELSE from_date
    IN  IF year = 0 THEN now ELSE year

(* round(x) of an estimate in hundredths, in points *)
RoundPoints(x) == (x + 50) \div 100

(* lines 838-853 *)
Participation(t, p, now) ==
    [id |-> t.id, name |-> t.name, date |-> t.date,
     year |-> ParticipationYear(t.name, t.date, now),
     games |-> p.games, score |-> p.score, elo |-> p.elo,
     tpr |-> IF p.tpr # 0 THEN RoundPoints(p.tpr) ELSE "None",
     avgGi |-> p.avgGi, avgMp |-> p.avgMp, timeControl |-> t.timeControl,
     wins |-> p.wins, draws |-> p.draws, losses |-> p.losses]

ParticipantIndex(pt, name) ==
    IF \E i \in 1..Len(pt) : pt[i].player = name
    THEN CHOOSE i \in 1..Len(pt) : pt[i].player = name
    ELSE 0

AddParticipation(pt, name, entry) ==
    IF ParticipantIndex(pt, name) = 0
    THEN Append(pt, [player |-> name, tournaments |-> <<entry>>])
    ELSE [pt EXCEPT ![ParticipantIndex(pt, name)].tournaments = Append(@, entry)]

RECURSIVE AddParticipants(_, _, _, _)
AddParticipants(pt, t, players, now) ==
    IF players = <<>> THEN pt
    ELSE AddParticipants(AddParticipation(pt, players[1].name,
                                          Participation(t, players[1], now)),
                         t, Tail(players), now)

RECURSIVE AddTournaments(_, _, _)
AddTournaments(pt, ts, now) ==
    IF ts = <<>> THEN pt
    ELSE AddTournaments(AddParticipants(pt, ts[1], ts[1].playerStats, now), Tail(ts), now)

(* the order of str on the characters of a date *)
CharOrder == <<".","0","1","2","3","4","5","6","7","8","9","?">>

RECURSIVE str_less(_, _)
str_less(a, b) ==
    IF b = <<>> THEN FALSE
    ELSE IF a = <<>> THEN TRUE
    ELSE IF a[1] = b[1] THEN str_less(Tail(a), Tail(b))
    ELSE IndexOf(CharOrder, a[1]) < IndexOf(CharOrder, b[1])

(* lines 856-860: list.sort(key=date, reverse=True), which keeps the order of *)
(* entries with equal dates                                                   *)
RECURSIVE InsertByDate(_, _)
InsertByDate(sorted, x) ==
    IF sorted = <<>> THEN <<x>>
    ELSE IF str_less(sorted[1].date, x.date) THEN <<x>> \o sorted
    ELSE <<sorted[1]>> \o InsertByDate(Tail(sorted), x)

RECURSIVE SortByDate(_)
SortByDate(list) ==
    IF list = <<>> THEN <<>>
    ELSE InsertByDate(SortByDate(SubSeq(list, 1, Len(list) - 1)), list[Len(list)])

build_player_tournaments(ts, now) ==
    LET pt == AddTournaments(<<>>, ts, now)
    IN  [i \in 1..Len(pt) |-> [pt[i] EXCEPT !.tournaments = SortByDate(@)]]

(* ---- sort(key=lambda x: -x['tpr']) of lines 677 and 792 ---- *)
TprSortsBefore(a, b) == a.tpr > b.tpr

RECURSIVE InsertByTpr(_, _)
InsertByTpr(sorted, x) ==
    IF sorted = <<>> THEN <<x>>
    ELSE IF TprSortsBefore(x, sorted[1]) THEN <<x>> \o sorted
    ELSE <<sorted[1]>> \o InsertByTpr(Tail(sorted), x)

RECURSIVE SortByTpr(_)
SortByTpr(list) ==
    IF list = <<>> THEN <<>>
    ELSE InsertByTpr(SortByTpr(SubSeq(list, 1, Len(list) - 1)), list[Len(list)])

(* ---- generate_tpr_year_data (lines 640-679) ---- *)
(* line 664 *)
Listed(player) == player.games >= 3 /\ player.tpr # 0

TprYearEntries(t) ==
    LET listed == SelectSeq(t.playerStats, Listed)
    IN  [i \in 1..Len(listed) |->
            [player |-> listed[i].name, tournament |-> t.name, tournamentId |-> t.id,
             year |-> RollupYear(t.id, t.date), tpr |-> listed[i].tpr,
             games |-> listed[i].games, score |-> listed[i].score,
             timeControl |-> t.timeControl]]

RECURSIVE AllTprYearEntries(_)
AllTprYearEntries(ts) ==
    IF ts = <<>> THEN <<>> ELSE TprYearEntries(ts[1]) \o AllTprYearEntries(Tail(ts))

generate_tpr_year_data(ts) == SortByTpr(AllTprYearEntries(ts))

(* ---- generate_yearly_tpr_data (lines 682-794) ---- *)
KeyIndex(ypd, year, tc) ==
    IF \E i \in 1..Len(ypd) : ypd[i].year = year /\ ypd[i].timeControl = tc
    THEN CHOOSE i \in 1..Len(ypd) : ypd[i].year = year /\ ypd[i].timeControl = tc
    ELSE 0

BucketIndex(players, name) ==
    IF \E i \in 1..Len(players) : players[i].player = name
    THEN CHOOSE i \in 1..Len(players) : players[i].player = name
    ELSE 0

(* the defaultdict factory of lines 688-690 *)
NewBucket(name) ==
    [player |-> name, games |-> 0, score |-> 0, opp_elo_sum |-> 0, tournaments |-> {}]

(* lines 744-747 and 750-753 *)
AddToBucket(ypd, year, tc, name, result, opp_elo, tournament_id) ==
    LET with_key == IF KeyIndex(ypd, year, tc) = 0
                    THEN Append(ypd, [year |-> year, timeControl |-> tc, players |-> <<>>])
                    ELSE ypd
        k == KeyIndex(with_key, year, tc)
        with_player == IF BucketIndex(with_key[k].players, name) = 0
                       THEN [with_key EXCEPT ![k].players = Append(@, NewBucket(name))]
                       ELSE with_key
        i == BucketIndex(with_player[k].players, name)
    IN  [with_player EXCEPT ![k].players[i] =
            [@ EXCEPT !.games = @ + 1,
                      !.score = @ + result,
                      !.opp_elo_sum = @ + opp_elo,
                      !.tournaments = @ \cup {tournament_id}]]

(* lines 743 and 749 *)
(* variant: the rating of the opposing side is not looked at *)
CountsInYear_AnyRating(name, opp_elo) == name # ""

CountsInYear(name, opp_elo) == name # "" /\ opp_elo > 0

(* lines 731-737, in half points *)
YearlyWhiteResult(result_str) ==
    IF result_str = "1-0" THEN 2 ELSE IF result_str = "0-1" THEN 0 ELSE 1

YearlyBlackResult(result_str) ==
    IF result_str = "1-0" THEN 0 ELSE IF result_str = "0-1" THEN 2 ELSE 1

(* lines 724-753 for one game *)
AccumulateGame(ypd, year, tc, tournament_id, game) ==
    LET after_white ==
            IF CountsInYear(game.white, game.blackElo)
            THEN AddToBucket(ypd, year, tc, game.white, YearlyWhiteResult(game.result),
                             game.blackElo, tournament_id)
            ELSE ypd
    IN  IF CountsInYear(game.black, game.whiteElo)
        THEN AddToBucket(after_white, year, tc, game.black, YearlyBlackResult(game.result),
                         game.whiteElo, tournament_id)
        ELSE after_white

RECURSIVE AccumulateGames(_, _, _, _, _)
AccumulateGames(ypd, year, tc, tournament_id, games) ==
    IF games = <<>> THEN ypd
    ELSE AccumulateGames(AccumulateGame(ypd, year, tc, tournament_id, games[1]),
                         year, tc, tournament_id, Tail(games))

(* line 760 *)
(* variant: four games are enough *)
Qualifies_FourGames(data) == data.games >= 4

Qualifies(data) == data.games >= 5

(* lines 759-790 for the players of one key *)
YearlyEntries(key, available, outcomes) ==
    LET qualifying == SelectSeq(key.players, Qualifies)
    IN  [i \in 1..Len(qualifying) |->
            [player |-> qualifying[i].player,
             year |-> key.year,
             tpr |-> ComputeTPR(available,
                                outcomes[<<key.year, key.timeControl, qualifying[i].player>>],
                                qualifying[i].score, qualifying[i].games,
                                AvgOppElo(qualifying[i].opp_elo_sum, qualifying[i].games)),
             games |-> qualifying[i].games,
             score |-> qualifying[i].score,
             tournaments |-> Cardinality(qualifying[i].tournaments),
             timeControl |-> key.timeControl]]

RECURSIVE AllYearlyEntries(_, _, _)
AllYearlyEntries(ypd, available, outcomes) ==
    IF ypd = <<>> THEN <<>>
    ELSE YearlyEntries(ypd[1], available, outcomes)
             \o AllYearlyEntries(Tail(ypd), available, outcomes)

BucketKeys(ypd) ==
    UNION {{<<ypd[k].year, ypd[k].timeControl, ypd[k].players[i].player>> :
               i \in 1..Len(ypd[k].players)} : k \in 1..Len(ypd)}

(* ---- the state machine ---- *)
(* the files of at most k rows; the loop takes the date and the site of a   *)
(* group from its first row and opens the groups in the order their first  *)
(* rows come, and adds the other rows up: any row comes first and the rows *)
(* after it come in the order of RollupRowList                             *)
RECURSIVE RowIndexSeqs(_)
RowIndexSeqs(k) ==
    IF k = 0 THEN {<<>>}
    ELSE RowIndexSeqs(k - 1) \cup
         {Append(p[1], p[2]) :
             p \in {q \in RowIndexSeqs(k - 1) \X DOMAIN RollupRowList :
                       /\ Len(q[1]) = k - 1
                       /\ k > 2 => q[1][k - 1] <= q[2]}}

RowSeqs(k) == {[j \in DOMAIN s |-> RollupRowList[s[j]]] : s \in RowIndexSeqs(k)}

(* line 922 has returned the tournaments of one file of Stats/Classical; the *)
(* import of epr_calculator has failed                                       *)
InitRollup ==
    /\ ClsIdle /\ EstIdle /\ RevIdle
    /\ pc = "done" /\ file_no = 1
    /\ time_control = TimeControls[1]
    /\ folder_name \in FolderNames
    /\ \E rows \in RowSeqs(MaxRollupRows) :
          /\ rows_read = Len(rows)
          /\ tournaments = LoadRows(rows, time_control, folder_name)
    /\ tournament_games = <<>> /\ group_idx = 0 /\ row_idx = 0
    /\ games_list = <<>> /\ player_stats = <<>> /\ first_date = <<>>
    /\ player_stats_list = <<>> /\ epr_outcome = <<>>
    /\ error = "" /\ tournaments_at_open = <<>>
    /\ epr_available = FALSE
    /\ roll_pc = "loaded"
    /\ now_year \in NowYears
    /\ player_tournaments = <<>> /\ tpr_year = <<>>
    /\ roll_idx = 0 /\ yearly_player_data = <<>> /\ yearly_tpr = <<>>

(* line 925 *)
BuildPlayerTournaments ==
    /\ roll_pc = "loaded"
    /\ player_tournaments' = build_player_tournaments(tournaments, now_year)
    /\ roll_pc' = "participation"
    /\ UNCHANGED <<now_year, tpr_year, roll_idx, yearly_player_data, yearly_tpr>>
    /\ UNCHANGED <<loadVars, clsVars, estVars, revVars>>

(* line 963 *)
GenerateTprYear ==
    /\ roll_pc = "participation"
    /\ tpr_year' = generate_tpr_year_data(tournaments)
    /\ roll_pc' = "yearly"
    /\ UNCHANGED <<now_year, player_tournaments, roll_idx, yearly_player_data, yearly_tpr>>
    /\ UNCHANGED <<loadVars, clsVars, estVars, revVars>>

(* lines 692-753: one tournament of the first loop of generate_yearly_tpr_data *)
AccumulateTournament ==
    /\ roll_pc = "yearly"
    /\ roll_idx < Len(tournaments)
    /\ LET t == tournaments[roll_idx + 1]
       IN  yearly_player_data' =
               AccumulateGames(yearly_player_data, RollupYear(t.id, t.date),
                               t.timeControl, t.id, t.gamesList)
    /\ roll_idx' = roll_idx + 1
    /\ UNCHANGED <<roll_pc, now_year, player_tournaments, tpr_year, yearly_tpr>>
    /\ UNCHANGED <<loadVars, clsVars, estVars, revVars>>

(* lines 755-794 *)
EmitYearly ==
    /\ roll_pc = "yearly"
    /\ roll_idx = Len(tournaments)
    /\ \E outcomes \in [BucketKeys(yearly_player_data) ->
                           IF epr_available THEN OptimizerOutcomes ELSE {"unused"}] :
          yearly_tpr' = SortByTpr(AllYearlyEntries(yearly_player_data, epr_available,
                                                   outcomes))
    /\ roll_pc' = "done"
    /\ UNCHANGED <<now_year, player_tournaments, tpr_year, roll_idx, yearly_player_data>>
    /\ UNCHANGED <<loadVars, clsVars, estVars, revVars>>

NextRollup ==
    \/ BuildPlayerTournaments
    \/ GenerateTprYear
    \/ AccumulateTournament
    \/ EmitYearly

SpecRollup == InitRollup /\ [][NextRollup]_vars


(* ------------------------------------------------------------------ *)
(* scripts/update_review_from_issue.py                                 *)
(* ------------------------------------------------------------------ *)
RECURSIVE str_lstrip(_)
str_lstrip(s) == IF s # <<>> /\ s[1] \in Whitespace THEN str_lstrip(Tail(s)) ELSE s

RECURSIVE str_rstrip(_)
str_rstrip(s) ==
    IF s # <<>> /\ s[Len(s)] \in Whitespace THEN str_rstrip(SubSeq(s, 1, Len(s) - 1)) ELSE s

str_strip(s) == str_rstrip(str_lstrip(s))

(* str.splitlines for "\n" line ends *)
str_splitlines(s) ==
    IF s = <<>> THEN <<>>
    ELSE IF s[Len(s)] = "\n" THEN str_split(SubSeq(s, 1, Len(s) - 1), "\n")
    ELSE str_split(s, "\n")

(* lines 14-21 *)
FIELD_LABELS ==
    [problem_type |-> <<"P","r","o","b","l","e","m"," ","t","y","p","e">>,
     problem_id |-> <<"P","r","o","b","l","e","m"," ","I","D">>,
     verdict |-> <<"V","e","r","d","i","c","t">>,
     explanation |-> <<"E","x","p","l","a","n","a","t","i","o","n">>,
     citations |-> <<"C","i","t","a","t","i","o","n"," ","l","i","n","k","s"," ","(","r","e","q","u","i","r","e","d"," ","f","o","r"," ","a","c","c","e","p","t","e","d",")">>,
     discussion_link |-> <<"R","e","l","a","t","e","d"," ","d","i","s","c","u","s","s","i","o","n"," ","l","i","n","k"," ","(","o","p","t","i","o","n","a","l",")">>]

(* lines 23-32 *)
VERDICT_MAP ==
    [v \in {<<"f","l","a","g","g","e","d">>, <<"i","n","c","o","r","r","e","c","t">>, <<"k","n","o","w","n">>, <<"t","e","c","h","n","i","c","a","l","i","t","y">>, <<"t","r","i","v","i","a","l">>,
            <<"p","a","r","t","i","a","l">>, <<"p","l","a","u","s","i","b","l","e">>, <<"a","c","c","e","p","t","e","d">>} |-> <<v, v>>]

(* the heading pattern "### <label>" with optional blanks up to the line end *)
IsHeading(line, label) ==
    /\ HasAt(line, 1, <<"#","#","#"," ">> \o label)
    /\ \A k \in (Len(label) + 5)..Len(line) : line[k] \in Whitespace

(* the lookahead "^### " *)
StartsSection(line) == HasAt(line, 1, <<"#","#","#"," ">>)

(* lines 35-43; the body is the join of its lines with "\n", so a heading on *)
(* the last line has no "\n" after it and does not match                    *)
extract_field(lines, label) ==
    IF \A i \in 1..(Len(lines) - 1) : ~IsHeading(lines[i], label) THEN <<>>
    ELSE LET i == CHOOSE j \in 1..(Len(lines) - 1) :
                      /\ IsHeading(lines[j], label)
                      /\ \A k \in 1..(j - 1) : ~IsHeading(lines[k], label)
             ends == {j \in (i + 1)..Len(lines) : StartsSection(lines[j])} \cup {Len(lines) + 1}
             stop == CHOOSE j \in ends : \A k \in ends : j <= k
             value == str_strip(str_join(SubSeq(lines, i + 1, stop - 1), <<"\n">>))
         IN  IF str_lower(value) \in {<<"_","n","o"," ","r","e","s","p","o","n","s","e","_">>, <<"n","o"," ","r","e","s","p","o","n","s","e">>} THEN <<>> ELSE value

(* the "number" column of lists/erdos_problems.csv, stripped *)
ErdosNumbers == {<<"7">>, <<"1","2">>}

(* the "question_id" column of lists/mo_problems.csv, stripped *)
MoQuestionIds == {<<"3","4">>}

(* lines 46-58, when the file can be opened *)
load_problem_ids(type) == IF type = <<"e","r","d","o","s">> THEN ErdosNumbers ELSE MoQuestionIds

(* re.match(r"^https?://", line) *)
IsLink(line) == HasAt(line, 1, <<"h","t","t","p",":","/","/">>) \/ HasAt(line, 1, <<"h","t","t","p","s",":","/","/">>)

(* the loop of lines 63-68; links_only is the test of line 67 *)
RECURSIVE KeepLines(_, _)
KeepLines(lines, links_only) ==
    IF lines = <<>> THEN <<>>
    ELSE LET line == str_strip(lines[1])
             rest == KeepLines(Tail(lines), links_only)
         IN  IF line # <<>> /\ (links_only => IsLink(line)) THEN <<line>> \o rest ELSE rest

(* variant: every non-empty line is taken as a link *)
parse_links_AnyLine(value) == KeepLines(str_splitlines(value), FALSE)

(* lines 61-69 *)
parse_links(value) == KeepLines(str_splitlines(value), TRUE)

(* the environment of the workflow run: lines 74-78 *)
Environ ==
    [ISSUE_NUMBER |-> <<"5">>,
     ISSUE_URL |-> <<"h","t","t","p","s",":","/","/","h","o","s","t","/","i","s","s","u","e","s","/","5">>,
     ISSUE_AUTHOR |-> <<" ","a","n","n"," ">>,
     REVIEW_LABELER |-> <<" ">>,
     ISSUE_CREATED_AT |-> <<"2","0","2","5","-","0","1","-","0","2","T","0","3",":","0","4",":","0","5","Z">>]

(* "a or b" on two strings *)
StrOr(a, b) == IF a # <<>> THEN a ELSE b

(* lines 116-127 *)
ReviewData(v, expl, links, discussion) ==
    [status |-> VERDICT_MAP[v][1],
     label |-> VERDICT_MAP[v][2],
     note |-> str_strip(expl),
     citations |-> links,
     discussion_link |-> str_strip(discussion),
     reviewed_by |-> StrOr(str_strip(Environ.REVIEW_LABELER), str_strip(Environ.ISSUE_AUTHOR)),
     reviewed_at |-> IF Environ.ISSUE_CREATED_AT # <<>>
                     THEN SubSeq(Environ.ISSUE_CREATED_AT, 1, 10) ELSE <<>>,
     issue_number |-> Environ.ISSUE_NUMBER,
     issue_url |-> Environ.ISSUE_URL]

(* ---- the issue bodies the script is run on ---- *)
(* a section as the issue form renders it: heading, blank line, answer, blank line *)
Section(label, answer) == << <<"#","#","#"," ">> \o label, <<>> >> \o answer \o << <<>> >>

NoResponse == << <<"_","N","o"," ","r","e","s","p","o","n","s","e","_">> >>

TypeAnswers == { << <<"e","r","d","o","s">> >>, << <<"M","O">> >>, << <<"o","t","h","e","r">> >>, NoResponse }

IdAnswers == { << <<"1","2">> >>, << <<"3","4">> >>, << <<"9","9">> >>, << <<"1","2","a">> >>, NoResponse }

VerdictAnswers == { << <<"a","c","c","e","p","t","e","d">> >>, << <<"k","n","o","w","n">> >>, << <<"A","c","c","e","p","t","e","d">> >>, NoResponse }

ExplanationAnswers ==
    { << <<"t","h","i","s"," ","i","s"," ","t","w","e","n","t","y"," ","c","h","a","r","s">> >>, << <<"t","h","i","s"," ","i","s">>, <<"n","i","n","e","t","e","e","n"," ","c","h"," "," ">> >>, NoResponse }

CitationAnswers ==
    { << <<"h","t","t","p","s",":","/","/","a",".","o","r","g","/","1">> >>, << <<"s","e","e"," ","t","h","e"," ","p","a","p","e","r">> >>,
      << <<"f","t","p",":","/","/","a",".","o","r","g","/","1">>, <<" "," ","h","t","t","p",":","/","/","b",".","o","r","g","/","2">> >>, NoResponse }

(* the section of the discussion link is not in the body *)
IssueBody(type, id, v, expl, cit) ==
    Section(FIELD_LABELS.problem_type, type) \o Section(FIELD_LABELS.problem_id, id)
        \o Section(FIELD_LABELS.verdict \o <<" "," ">>, v)
        \o Section(FIELD_LABELS.explanation, expl)
        \o Section(FIELD_LABELS.citations, cit)

IssueBodies ==
    {IssueBody(type, id, v, expl, cit) :
        type \in TypeAnswers, id \in IdAnswers, v \in VerdictAnswers,
        expl \in ExplanationAnswers, cit \in CitationAnswers}

(* a review file written by an earlier run *)
OldReview == ReviewData(<<"f","l","a","g","g","e","d">>, <<"o","l","d"," ","n","o","t","e">>, <<>>, <<>>)

InitialReviews == { {}, { << <<"e","r","d","o","s">>, <<"1","2">>, OldReview >> } }

(* ---- main(), lines 72-136 ---- *)
InitReview ==
    /\ LoadIdle /\ ClsIdle /\ EstIdle /\ RollIdle
    /\ epr_available = FALSE
    /\ rev_pc = "start"
    /\ body \in IssueBodies
    /\ lists_readable \in BOOLEAN
    /\ review_files \in InitialReviews
    /\ problem_type_raw = <<>> /\ problem_type = <<>> /\ problem_id = <<>>
    /\ verdict = <<>> /\ explanation = <<>> /\ citations_value = <<>>
    /\ discussion_link = <<>> /\ citations = <<>>
    /\ rev_error = ""

(* raise SystemExit(message), or an exception that is not caught *)
Exit(message) == rev_pc' = "exit" /\ rev_error' = message

Go(next) == rev_pc' = next /\ rev_error' = rev_error

(* lines 80-85 *)
ExtractFields ==
    /\ rev_pc = "start"
    /\ problem_type_raw' = extract_field(body, FIELD_LABELS.problem_type)
    /\ problem_id' = extract_field(body, FIELD_LABELS.problem_id)
    /\ verdict' = extract_field(body, FIELD_LABELS.verdict)
    /\ explanation' = extract_field(body, FIELD_LABELS.explanation)
    /\ citations_value' = extract_field(body, FIELD_LABELS.citations)
    /\ discussion_link' = extract_field(body, FIELD_LABELS.discussion_link)
    /\ Go("required")
    /\ UNCHANGED <<body, lists_readable, problem_type, citations, review_files>>
    /\ UNCHANGED <<loadVars, clsVars, estVars, rollVars>>

(* lines 87-88 *)
CheckRequired ==
    /\ rev_pc = "required"
    /\ IF problem_type_raw = <<>> \/ problem_id = <<>> \/ verdict = <<>>
       THEN Exit("Missing required fields")
       ELSE Go("type")
    /\ UNCHANGED <<body, lists_readable, problem_type_raw, problem_type, problem_id, verdict,
                   explanation, citations_value, discussion_link, citations, review_files>>
    /\ UNCHANGED <<loadVars, clsVars, estVars, rollVars>>

(* lines 90-92 *)
CheckType ==
    /\ rev_pc = "type"
    /\ problem_type' = str_lower(str_strip(problem_type_raw))
    /\ IF problem_type' \notin {<<"e","r","d","o","s">>, <<"m","o">>}
       THEN Exit("Unknown problem type")
       ELSE Go("id")
    /\ UNCHANGED <<body, lists_readable, problem_type_raw, problem_id, verdict,
                   explanation, citations_value, discussion_link, citations, review_files>>
    /\ UNCHANGED <<loadVars, clsVars, estVars, rollVars>>

(* lines 94-96: the whole of problem_id matches \d+ *)
CheckId ==
    /\ rev_pc = "id"
    /\ problem_id' = str_strip(problem_id)
    /\ IF ReEnd(problem_id', RePlus(problem_id', {0}, DigitSet)) = {}
       THEN Exit("Invalid problem id")
       ELSE Go("listed")
    /\ UNCHANGED <<body, lists_readable, problem_type_raw, problem_type, verdict,
                   explanation, citations_value, discussion_link, citations, review_files>>
    /\ UNCHANGED <<loadVars, clsVars, estVars, rollVars>>

(* lines 98-100; open() at line 54 raises when the list is not there *)
CheckListed ==
    /\ rev_pc = "listed"
    /\ IF ~lists_readable THEN Exit("FileNotFoundError")
       ELSE IF problem_id \notin load_problem_ids(problem_type)
            THEN Exit("Problem id not found in lists")
       ELSE Go("verdict")
    /\ UNCHANGED <<body, lists_readable, problem_type_raw, problem_type, problem_id, verdict,
                   explanation, citations_value, discussion_link, citations, review_files>>
    /\ UNCHANGED <<loadVars, clsVars, estVars, rollVars>>

(* lines 102-103 *)
CheckVerdict ==
    /\ rev_pc = "verdict"
    /\ IF verdict \notin DOMAIN VERDICT_MAP
       THEN Exit("Unknown verdict")
       ELSE Go("explanation")
    /\ UNCHANGED <<body, lists_readable, problem_type_raw, problem_type, problem_id, verdict,
                   explanation, citations_value, discussion_link, citations, review_files>>
    /\ UNCHANGED <<loadVars, clsVars, estVars, rollVars>>

(* lines 105-107 *)
CheckExplanation ==
    /\ rev_pc = "explanation"
    /\ IF str_strip(explanation) = <<>>
       THEN Exit("Explanation is required")
       ELSE Go("accepted")
    /\ UNCHANGED <<body, lists_readable, problem_type_raw, problem_type, problem_id, verdict,
                   explanation, citations_value, discussion_link, citations, review_files>>
    /\ UNCHANGED <<loadVars, clsVars, estVars, rollVars>>

(* lines 109-114 *)
CheckAccepted ==
    /\ rev_pc = "accepted"
    /\ citations' = parse_links(citations_value)
    /\ IF VERDICT_MAP[verdict][1] = <<"a","c","c","e","p","t","e","d">> /\ Len(citations') < 1
       THEN Exit("Accepted verdict requires at least one citation link")
       ELSE IF VERDICT_MAP[verdict][1] = <<"a","c","c","e","p","t","e","d">> /\ Len(str_strip(explanation)) < 20
            THEN Exit("Accepted verdict requires a short explanation")
       ELSE Go("write")
    /\ UNCHANGED <<body, lists_readable, problem_type_raw, problem_type, problem_id, verdict,
                   explanation, citations_value, discussion_link, review_files>>
    /\ UNCHANGED <<loadVars, clsVars, estVars, rollVars>>

(* lines 116-136: reviews/<problem_type>/<problem_id>.json is opened with "w" *)
WriteReview ==
    /\ rev_pc = "write"
    /\ review_files' =
          {f \in review_files : <<f[1], f[2]>> # <<problem_type, problem_id>>}
              \cup {<<problem_type, problem_id,
                      ReviewData(verdict, explanation, citations, discussion_link)>>}
    /\ Go("written")
    /\ UNCHANGED <<body, lists_readable, problem_type_raw, problem_type, problem_id, verdict,
                   explanation, citations_value, discussion_link, citations>>
    /\ UNCHANGED <<loadVars, clsVars, estVars, rollVars>>

NextReview ==
    \/ ExtractFields
    \/ CheckRequired
    \/ CheckType
    \/ CheckId
    \/ CheckListed
    \/ CheckVerdict
    \/ CheckExplanation
    \/ CheckAccepted
    \/ WriteReview

SpecReview == InitReview /\ [][NextReview]_vars
(* ------------------------------------------------------------------ *)
(* Properties                                                          *)
(* ------------------------------------------------------------------ *)
(* every PlayerAggregate in the state: the running totals of the group being *)
(* folded and the finalized entries of every stored tournament                *)
RunningAggregates == {player_stats[i] : i \in 1..Len(player_stats)}

FinalizedAggregates ==
    UNION {{tournaments[t].playerStats[i] : i \in 1..Len(tournaments[t].playerStats)} :
              t \in 1..Len(tournaments)}

ScoreOf(ps, name) == IF StatsIndex(ps, name) = 0 THEN 0 ELSE ps[StatsIndex(ps, name)].score

(* C1: after folding any sequence of game records, every PlayerAggregate, *)
(* running or finalized, has wins + draws + losses = games                *)
C1_WinsDrawsLosses ==
    \A s \in RunningAggregates \cup FinalizedAggregates :
        s.wins + s.draws + s.losses = s.games

C1_Witness ==
    /\ pc = "done"
    /\ \E s \in FinalizedAggregates : s.games = 2 /\ s.wins = 1 /\ s.draws = 1

(* C2: folding a record adds exactly the side's result (0, 1 or 2 half points) *)
(* to that player's score, and 0 <= score <= games holds at every step and in  *)
(* every finalized aggregate                                                   *)
C2_ScoreStep ==
    /\ [](\A s \in RunningAggregates \cup FinalizedAggregates :
              0 <= s.score /\ s.score <= 2 * s.games)
    /\ [][(pc = "fold" /\ row_idx' = row_idx + 1) =>
             LET row == CurrentGroup.rows[row_idx]
             IN  /\ row.WhiteResult \in {0, 1, 2} /\ row.BlackResult \in {0, 1, 2}
                 /\ row.White # "" =>
                        ScoreOf(player_stats', row.White)
                            = ScoreOf(player_stats, row.White) + row.WhiteResult
                 /\ row.Black # "" =>
                        ScoreOf(player_stats', row.Black)
                            = ScoreOf(player_stats, row.Black) + row.BlackResult]_vars

C2_Witness ==
    /\ pc = "fold"
    /\ \E s \in RunningAggregates : s.games = 2 /\ s.score = 3

(* C3: the estimate of a perfect score is a finite number strictly above the *)
(* average opponent rating and above the estimate of every interior score    *)
(* with the same games and average; the estimate of a zero score is strictly  *)
(* below all of them                                                          *)
InteriorScores(games) == 1..(2 * games - 1)

C3_DegenerateExtreme ==
    est_pc = "done" =>
        /\ m = 2 * n =>
              /\ tpr \in Int
              /\ tpr > avg_opp_elo
              /\ \A k \in InteriorScores(n) : tpr > ClosedFormTPR(k, n, avg_opp_elo)
        /\ m = 0 =>
              /\ tpr \in Int
              /\ tpr < avg_opp_elo
              /\ \A k \in InteriorScores(n) : tpr < ClosedFormTPR(k, n, avg_opp_elo)

(* 3 games, score 3, average opponent rating 2000 *)
C3_Witness ==
    est_pc = "done" /\ n = 3 /\ m = 6 /\ avg_opp_elo = 200000 /\ tpr > 200000

(* the correction term ((games + 1) / games) * 400 * log10((games + 0.5 - score) / *)
(* (score + 0.5)) in hundredths, score in half points                               *)
Correction(score, games) ==
    ((games + 1) * 4 * Log10Ratio(2 * games + 1 - score, score + 1)) \div games

(* C4 as stated: in the degenerate case the estimate is avg - sign * correction *)
(* with sign -1 for a perfect score and +1 for a zero score                     *)
C4_SignedCorrection ==
    (est_pc = "done" /\ (m = 0 \/ m = 2 * n)) =>
        tpr = avg_opp_elo - (IF m = 2 * n THEN -1 ELSE 1) * Correction(m, n)

(* C4 amended: in the degenerate case the estimate is avg - correction for the *)
(* perfect score and for the zero score alike (no sign factor)                 *)
C4_UnsignedCorrection ==
    (est_pc = "done" /\ (m = 0 \/ m = 2 * n)) =>
        tpr = avg_opp_elo - Correction(m, n)

C4_Witness ==
    est_pc = "done" /\ n = 2 /\ m = 4 /\ tpr = avg_opp_elo - Correction(4, 2)

(* C5: for fixed games and average, the estimate is strictly increasing in the *)
(* score over the scores strictly between 0 and games                          *)
C5_InteriorMonotone ==
    (est_pc = "done" /\ m \in InteriorScores(n)) =>
        \A k \in InteriorScores(n) : k < m => ClosedFormTPR(k, n, avg_opp_elo) < tpr

C5_Witness ==
    est_pc = "done" /\ n = 2 /\ m = 3 /\ tpr > ClosedFormTPR(2, 2, avg_opp_elo)

(* the group whose estimates were computed by the last FinalizeGroup step *)
AfterFinalize == pc = "group" /\ group_idx > 1

LastStats(name) == player_stats[StatsIndex(player_stats, name)]

LastAvgOppElo(name) == AvgOppElo(LastStats(name).opp_elo_sum, LastStats(name).games)

RECURSIVE TotalGames(_)
TotalGames(ts) == IF ts = <<>> THEN 0 ELSE Len(ts[1].gamesList) + TotalGames(Tail(ts))

(* C7: groups that resolve to the same tournament identity are merged by *)
(* concatenating their game lists, so no game record read is lost: the   *)
(* stored game lists hold every row read                                 *)
C7_NoGameLost == pc = "done" => TotalGames(tournaments) = rows_read

(* C8: a name derived for a pairing (from the url or the formatted folder    *)
(* name) is not itself a pairing: reclassifying with it as event label keeps *)
(* it verbatim                                                               *)
C8_ReclassifyIdempotent ==
    (cls_pc = "reclassified" /\ first_pairing) =>
        ~is_pairing /\ tournament_name = event

StartsWith(s, prefix) == HasAt(s, 1, prefix)

ContainsNoCase(s, kw) ==
    \E i \in 0..(Len(s) - Len(kw)) :
        \A k \in 1..Len(kw) : s[i + k] \in {kw[k], upper_c(kw[k])}

(* C10: the time control is blitz when the name contains "blitz" and not     *)
(* "rapid", rapid when it contains "rapid" and not "blitz", and otherwise the *)
(* directory's; the name never resolves it to classical                      *)
C10_TimeControl ==
    cls_pc \in {"classified", "reclassified"} =>
        LET b == ContainsNoCase(tournament_name, <<"b","l","i","t","z">>)
            r == ContainsNoCase(tournament_name, <<"r","a","p","i","d">>)
        IN  /\ (b /\ ~r) => actual_time_control = <<"b","l","i","t","z">>
            /\ (r /\ ~b) => actual_time_control = <<"r","a","p","i","d">>
            /\ (b = r) => actual_time_control = cls_dir
            /\ actual_time_control = <<"c","l","a","s","s","i","c","a","l">> => cls_dir = <<"c","l","a","s","s","i","c","a","l">>

C10_Witness ==
    /\ cls_pc = "classified"
    /\ ContainsNoCase(tournament_name, <<"b","l","i","t","z">>)
    /\ ContainsNoCase(tournament_name, <<"r","a","p","i","d">>)
    /\ cls_dir = <<"c","l","a","s","s","i","c","a","l">>
    /\ actual_time_control = <<"c","l","a","s","s","i","c","a","l">>

(* ------------------------------------------------------------------ *)
(* Summary statistics                                                  *)
(* ------------------------------------------------------------------ *)
(* every value of a metric that is present in a stored tournament, zero or not *)
PresentValues(t) ==
    [avgGi |-> IF t.playerStats # <<>> THEN Column(t.playerStats, "avgGi")
               ELSE Column(t.gamesList, "whiteGi") \o Column(t.gamesList, "blackGi"),
     avgMissedPoints |-> IF t.playerStats # <<>> THEN Column(t.playerStats, "avgMp")
                         ELSE Column(t.gamesList, "whiteMp") \o Column(t.gamesList, "blackMp"),
     avgGiWhite |-> Column(t.gamesList, "whiteGi"),
     avgGiBlack |-> Column(t.gamesList, "blackGi"),
     avgMpWhite |-> Column(t.gamesList, "whiteMp"),
     avgMpBlack |-> Column(t.gamesList, "blackMp"),
     elo |-> InHundredths(Column(t.playerStats, "elo")),
     tpr |-> Column(t.playerStats, "tpr")]

(* C11: every summary metric of a stored tournament is computed over all  *)
(* present values of the metric, a value of exactly 0 included            *)
C11_ZeroIncluded ==
    \A i \in 1..Len(tournaments) :
        \A k \in MetricKeys :
            SummaryValues(tournaments[i].playerStats, tournaments[i].gamesList)[k]
                = PresentValues(tournaments[i])[k]

(* C12: calculate_tournament_summary_stats never raises: the except clause is *)
(* never entered with an exception of the summary                             *)
C12_NeverRaises == error # "AttributeError"

(* the rest of C12: every stored summary has every metric key; a metric with *)
(* no collected value has all-zero statistics, one with a single value std 0 *)
C12_KeysAndDegenerate ==
    \A i \in 1..Len(tournaments) :
        LET t == tournaments[i]
            values == SummaryValues(t.playerStats, t.gamesList)
        IN  /\ MetricKeys \subseteq DOMAIN t.summaryStats
            /\ \A k \in MetricKeys :
                  /\ Len(values[k]) = 0 => t.summaryStats[k] = ZeroStats
                  /\ Len(values[k]) = 1 => t.summaryStats[k].std = 0

(* ------------------------------------------------------------------ *)
(* Failures, missing names, standings                                  *)
(* ------------------------------------------------------------------ *)
(* C17: when the processing of a file raises, no tournament group of that *)
(* file is in the output: the except clause is entered with tournaments   *)
(* as it was when the file was opened                                     *)
C17_FailedFileLeavesNoGroup == pc = "except" => tournaments = tournaments_at_open

FoldStep == pc = "fold" /\ pc' = "fold" /\ row_idx' = row_idx + 1

Named(row) == {row.White, row.Black} \ {""}

(* the same row with a name in place of the missing one *)
NormalGame(row) ==
    [row EXCEPT !.White = IF @ = "" THEN "Z" ELSE @, !.Black = IF @ = "" THEN "Z" ELSE @]

(* C18: folding a row whose white or black name is empty updates the     *)
(* aggregate of the other side in every field as a normal game does,     *)
(* creates or changes no other aggregate, none for the empty name, and   *)
(* appends the row to the games list                                     *)
C18_EmptyNameSide ==
    [][(FoldStep /\ Named(CurrentGroup.rows[row_idx]) # {CurrentGroup.rows[row_idx].White,
                                                         CurrentGroup.rows[row_idx].Black})
        => LET row == CurrentGroup.rows[row_idx]
               normal == UpdatePlayerStats(player_stats, NormalGame(row))
           IN  /\ StatsIndex(player_stats', "") = 0
               /\ StatsNames(player_stats') = StatsNames(player_stats) \cup Named(row)
               /\ \A nm \in Named(row) :
                     /\ player_stats'[StatsIndex(player_stats', nm)]
                           = normal[StatsIndex(normal, nm)]
                     /\ player_stats'[StatsIndex(player_stats', nm)].games
                           = (IF StatsIndex(player_stats, nm) = 0 THEN 0
                              ELSE player_stats[StatsIndex(player_stats, nm)].games) + 1
               /\ \A i \in 1..Len(player_stats) :
                     player_stats[i].name \notin Named(row) => player_stats'[i] = player_stats[i]
               /\ Len(games_list') = Len(games_list) + 1
               /\ games_list'[Len(games_list')].white = row.White
               /\ games_list'[Len(games_list')].black = row.Black]_vars

C18_Witness ==
    /\ pc = "fold" /\ row_idx = 3
    /\ CurrentGroup.rows[1].Black # ""
    /\ CurrentGroup.rows[2].Black = ""
    /\ Len(games_list) = 2
    /\ StatsNames(player_stats) = {"A", "B"}
    /\ player_stats[StatsIndex(player_stats, "A")].games = 2

(* C19: in the finalized standings of every tournament, of two consecutive *)
(* entries the first has the higher score, or the same score and an        *)
(* estimate that is not lower                                              *)
C19_StandingsOrdered ==
    \A t \in 1..Len(tournaments) :
        LET list == tournaments[t].playerStats
        IN  \A i \in 1..(Len(list) - 1) :
                /\ list[i].score >= list[i + 1].score
                /\ list[i].score = list[i + 1].score => list[i].tpr >= list[i + 1].tpr

C19_Witness ==
    \E t \in 1..Len(tournaments) :
        LET list == tournaments[t].playerStats
        IN  /\ Len(list) = 2
            /\ list[1].score = list[2].score
            /\ list[1].tpr > list[2].tpr
            /\ list[1].name = "B"

(* ------------------------------------------------------------------ *)
(* Slug to title                                                       *)
(* ------------------------------------------------------------------ *)
(* C20: the words on either side of a double dash are formatted by the   *)
(* per-word rule: the broadcast slug fide-grand-swiss-2025--open becomes *)
(* the title FIDE Grand Swiss 2025 Open                                  *)
C20_DoubleDashTitle ==
    (/\ cls_pc = "classified"
     /\ is_pairing
     /\ site = <<"h","t","t","p","s",":","/","/","l","i","c","h","e","s","s",".","o","r","g","/","b","r","o","a","d","c","a","s","t","/","f","i","d","e","-","g","r","a","n","d","-","s","w","i","s","s","-","2","0","2","5","-","-","o","p","e","n","/","r","1","/","x","1">>)
        => tournament_name = <<"F","I","D","E"," ","G","r","a","n","d"," ","S","w","i","s","s"," ","2","0","2","5"," ","O","p","e","n">>

(* ------------------------------------------------------------------ *)
(* Yearly rollup                                                       *)
(* ------------------------------------------------------------------ *)
TournamentById(id) == tournaments[TournamentIndex(tournaments, id)]

RECURSIVE FirstTwentyPart(_)
FirstTwentyPart(parts) ==
    IF parts = <<>> THEN 0
    ELSE IF str_isdigit(parts[1]) /\ Len(parts[1]) = 4 /\ HasAt(parts[1], 1, <<"2","0">>)
         THEN str_to_int(parts[1])
    ELSE FirstTwentyPart(Tail(parts))

(* the year as C13 resolves it *)
ClaimedYear(t, now) ==
    IF YearOfDate(t.date) # 0 THEN YearOfDate(t.date)
    ELSE IF FirstTwentyPart(str_split(t.id, "-")) # 0
         THEN FirstTwentyPart(str_split(t.id, "-"))
    ELSE now

(* C13: the year of a tournament in the rollup is the year of the first     *)
(* game's date when it parses, otherwise the first 4-digit token of the     *)
(* identity that begins with "20", otherwise the current calendar year; so  *)
(* is every year in the participations, the best-performance list and the   *)
(* keys of the yearly buckets                                               *)
C13_YearResolution ==
    /\ \A i \in 1..Len(player_tournaments) :
          \A j \in 1..Len(player_tournaments[i].tournaments) :
              LET e == player_tournaments[i].tournaments[j]
              IN  e.year = ClaimedYear(TournamentById(e.id), now_year)
    /\ \A i \in 1..Len(tpr_year) :
          tpr_year[i].year = ClaimedYear(TournamentById(tpr_year[i].tournamentId), now_year)
    /\ \A k \in 1..Len(yearly_player_data) :
          \A i \in 1..Len(yearly_player_data[k].players) :
              \A id \in yearly_player_data[k].players[i].tournaments :
                  yearly_player_data[k].year = ClaimedYear(TournamentById(id), now_year)

(* the tournaments generate_yearly_tpr_data has scanned that fall under a key *)
Scanned(year, tc) ==
    {i \in 1..roll_idx : /\ RollupYear(tournaments[i].id, tournaments[i].date) = year
                         /\ tournaments[i].timeControl = tc}

(* what the games of a list add for a player: games, half points, opponent ratings; *)
(* rated_only tells whether a game against a rating of 0 is left out               *)
RECURSIVE Tally(_, _, _)
Tally(games, name, rated_only) ==
    IF games = <<>> THEN [games |-> 0, score |-> 0, opp_elo_sum |-> 0]
    ELSE LET g == games[1]
             rest == Tally(Tail(games), name, rated_only)
             as_white == g.white = name /\ (~rated_only \/ g.blackElo > 0)
             as_black == g.black = name /\ (~rated_only \/ g.whiteElo > 0)
         IN  [games |-> rest.games + (IF as_white THEN 1 ELSE 0) + (IF as_black THEN 1 ELSE 0),
              score |-> rest.score
                          + (IF as_white THEN YearlyWhiteResult(g.result) ELSE 0)
                          + (IF as_black THEN YearlyBlackResult(g.result) ELSE 0),
              opp_elo_sum |-> rest.opp_elo_sum + (IF as_white THEN g.blackElo ELSE 0)
                                               + (IF as_black THEN g.whiteElo ELSE 0)]

RECURSIVE TallyOver(_, _, _)
TallyOver(indices, name, rated_only) ==
    IF indices = {} THEN [games |-> 0, score |-> 0, opp_elo_sum |-> 0]
    ELSE LET i == CHOOSE j \in indices : TRUE
             rest == TallyOver(indices \ {i}, name, rated_only)
             here == Tally(tournaments[i].gamesList, name, rated_only)
         IN  [games |-> rest.games + here.games, score |-> rest.score + here.score,
              opp_elo_sum |-> rest.opp_elo_sum + here.opp_elo_sum]

RollupKeys ==
    {<<RollupYear(tournaments[i].id, tournaments[i].date), tournaments[i].timeControl>> :
        i \in 1..Len(tournaments)}

BucketOf(year, tc, name) ==
    yearly_player_data[KeyIndex(yearly_player_data, year, tc)]
        .players[BucketIndex(yearly_player_data[KeyIndex(yearly_player_data, year, tc)].players,
                             name)]

HasBucket(year, tc, name) ==
    /\ KeyIndex(yearly_player_data, year, tc) # 0
    /\ BucketIndex(yearly_player_data[KeyIndex(yearly_player_data, year, tc)].players, name) # 0

(* C14: the yearly bucket of a player holds exactly the games of the scanned  *)
(* tournaments of its key in which the player is named and the opposing side  *)
(* has a rating above 0, with their points, opponent ratings and tournaments; *)
(* a player named "" has no bucket; the tournament aggregate of a player      *)
(* counts every game of the player, a rating of 0 adding 0 to the sum behind  *)
(* its estimate                                                               *)
C14_YearlyBucket ==
    /\ \A key \in RollupKeys : \A name \in {"A", "B", "Z", ""} :
          LET expected == TallyOver(Scanned(key[1], key[2]), name, TRUE)
          IN  IF name = "" \/ expected.games = 0
              THEN ~HasBucket(key[1], key[2], name)
              ELSE /\ HasBucket(key[1], key[2], name)
                   /\ BucketOf(key[1], key[2], name).games = expected.games
                   /\ BucketOf(key[1], key[2], name).score = expected.score
                   /\ BucketOf(key[1], key[2], name).opp_elo_sum = expected.opp_elo_sum
                   /\ BucketOf(key[1], key[2], name).tournaments
                         = {tournaments[i].id : i \in
                               {j \in Scanned(key[1], key[2]) :
                                   Tally(tournaments[j].gamesList, name, TRUE).games > 0}}
    /\ \A k \in 1..Len(yearly_player_data) :
          <<yearly_player_data[k].year, yearly_player_data[k].timeControl>> \in RollupKeys
    /\ \A t \in 1..Len(tournaments) : \A i \in 1..Len(tournaments[t].playerStats) :
          LET p == tournaments[t].playerStats[i]
              all == Tally(tournaments[t].gamesList, p.name, FALSE)
          IN  /\ p.games = all.games
              /\ p.tpr = ClosedFormTPR(p.score, p.games, AvgOppElo(all.opp_elo_sum, p.games))

C14_Witness ==
    /\ roll_pc = "yearly" /\ roll_idx = Len(tournaments) /\ Len(tournaments) = 1
    /\ \E i \in 1..Len(tournaments[1].playerStats) :
          /\ tournaments[1].playerStats[i].name = "A"
          /\ tournaments[1].playerStats[i].games = 3
    /\ \E key \in RollupKeys :
          /\ HasBucket(key[1], key[2], "A")
          /\ BucketOf(key[1], key[2], "A").games = 2
          /\ HasBucket(key[1], key[2], "B")
          /\ BucketOf(key[1], key[2], "B").games = 2

EntriesFor(list, name, year, tc) ==
    {i \in 1..Len(list) : /\ list[i].player = name
                          /\ list[i].year = year
                          /\ list[i].timeControl = tc}

(* C15: when generate_yearly_tpr_data has returned, a bucket has an entry in *)
(* the list if and only if it has at least 5 games, no bucket has two, every *)
(* entry is that of a bucket, and the list is in descending order of the     *)
(* estimate                                                                  *)
C15_YearlyEntries ==
    roll_pc = "done" =>
        /\ \A k \in 1..Len(yearly_player_data) :
              \A i \in 1..Len(yearly_player_data[k].players) :
                  LET key == yearly_player_data[k]
                      data == key.players[i]
                      entries == EntriesFor(yearly_tpr, data.player, key.year, key.timeControl)
                  IN  /\ Cardinality(entries) = (IF data.games >= 5 THEN 1 ELSE 0)
                      /\ \A e \in entries : yearly_tpr[e].games = data.games
        /\ \A e \in 1..Len(yearly_tpr) :
              HasBucket(yearly_tpr[e].year, yearly_tpr[e].timeControl, yearly_tpr[e].player)
        /\ \A e \in 1..(Len(yearly_tpr) - 1) : yearly_tpr[e].tpr >= yearly_tpr[e + 1].tpr

C15_Witness ==
    /\ roll_pc = "done"
    /\ \E key \in RollupKeys :
          /\ HasBucket(key[1], key[2], "A") /\ BucketOf(key[1], key[2], "A").games = 4
          /\ HasBucket(key[1], key[2], "B") /\ BucketOf(key[1], key[2], "B").games = 5
          /\ EntriesFor(yearly_tpr, "A", key[1], key[2]) = {}
          /\ EntriesFor(yearly_tpr, "B", key[1], key[2]) # {}

(* C16: when generate_tpr_year_data has returned, the list has exactly one  *)
(* entry for every player aggregate of a tournament with at least 3 games, *)
(* and none for an aggregate with fewer                                    *)
C16_ListedByGameCount ==
    roll_pc \in {"yearly", "done"} =>
        \A t \in 1..Len(tournaments) : \A i \in 1..Len(tournaments[t].playerStats) :
            Cardinality({e \in 1..Len(tpr_year) :
                            /\ tpr_year[e].tournamentId = tournaments[t].id
                            /\ tpr_year[e].player = tournaments[t].playerStats[i].name})
                = (IF tournaments[t].playerStats[i].games >= 3 THEN 1 ELSE 0)

(* the aggregate of a player in a tournament *)
AggregateOf(t, name) == t.playerStats[StatsIndex(t.playerStats, name)]

HasAggregate(t, name) == StatsIndex(t.playerStats, name) # 0

(* every game of the player in the list is against a rating above 0 *)
AllRated(games, name) ==
    \A i \in 1..Len(games) : /\ games[i].white = name => games[i].blackElo > 0
                             /\ games[i].black = name => games[i].whiteElo > 0

(* C21: when the tournaments scanned under a key are one tournament and every *)
(* opponent of a named player in it has a rating above 0, the yearly bucket of *)
(* the player has the games and the score of the player's aggregate in that    *)
(* tournament: the result re-derived from the stored result string is the      *)
(* result the aggregate was credited with                                      *)
C21_RederivedResult ==
    \A key \in RollupKeys : \A name \in {"A", "B"} :
        \A i \in Scanned(key[1], key[2]) :
            ( /\ Scanned(key[1], key[2]) = {i}
              /\ HasAggregate(tournaments[i], name)
              /\ AllRated(tournaments[i].gamesList, name) )
            => /\ HasBucket(key[1], key[2], name)
               /\ BucketOf(key[1], key[2], name).games = AggregateOf(tournaments[i], name).games
               /\ BucketOf(key[1], key[2], name).score = AggregateOf(tournaments[i], name).score

(* ------------------------------------------------------------------ *)
(* Order of the two passes                                             *)
(* ------------------------------------------------------------------ *)
(* a step that computes the averages and estimates of a group *)
Finalizes ==
    \/ pc = "fold" /\ pc' \in {"group", "except"} /\ error' # "OverflowError"
    \/ player_stats_list' # player_stats_list
    \/ epr_outcome' # epr_outcome
    \/ tournaments' # tournaments

(* a step that assigns a row to its group *)
ReadsRow == tournament_games' # tournament_games /\ tournament_games' # <<>>

RECURSIVE RowCount(_)
RowCount(tg) == IF tg = <<>> THEN 0 ELSE Len(tg[1].rows) + RowCount(Tail(tg))

(* C22: the aggregates of a group are finalized only after the first pass over *)
(* the file has ended and every row of the group has been folded in; a row is  *)
(* assigned to a group only in the first pass, before any group of the file is *)
(* finalized, and the first pass is entered only by opening the next file      *)
C22_ReadBeforeFinalize ==
    [][ /\ Finalizes =>
              /\ pc = "fold"
              /\ tournament_games' = tournament_games
              /\ row_idx = Len(CurrentGroup.rows) + 1
              /\ Len(games_list) = Len(CurrentGroup.rows)
              /\ \A i \in 1..Len(player_stats_list') :
                    player_stats_list'[i].games
                        = Len(SelectSeq(CurrentGroup.rows,
                                        LAMBDA r : player_stats_list'[i].name
                                                      \in {r.White, r.Black}))
        /\ ReadsRow =>
              /\ pc = "read" /\ pc' = "read"
              /\ tournaments = tournaments_at_open
              /\ RowCount(tournament_games') = RowCount(tournament_games) + 1
        /\ (pc' = "read" /\ pc # "read") =>
              /\ pc = "idle" /\ file_no' = file_no + 1
              /\ tournament_games' = <<>> /\ tournaments_at_open' = tournaments
      ]_vars

(* the first of two groups has been finalized, after both rows of the file *)
(* were read                                                               *)
C22_Witness ==
    /\ pc = "group" /\ group_idx = 2
    /\ Len(tournament_games) = 2
    /\ Len(tournaments) = Len(tournaments_at_open) + 1
    /\ Len(player_stats_list) = 2

(* ------------------------------------------------------------------ *)
(* Games by colour                                                     *)
(* ------------------------------------------------------------------ *)
GamesOf(ps, name) == IF StatsIndex(ps, name) = 0 THEN 0 ELSE ps[StatsIndex(ps, name)].games

(* C23: every aggregate, running or finalized, has white games + black games *)
(* = games; folding a row with two non-empty, distinct names raises games by  *)
(* exactly 1 for the two players named and leaves every other aggregate as it *)
(* was, creating none                                                         *)
C23_GamesByColour ==
    /\ [](/\ \A s \in RunningAggregates : s.white_games + s.black_games = s.games
          /\ \A s \in FinalizedAggregates : s.whiteGames + s.blackGames = s.games)
    /\ [][(FoldStep /\ CurrentGroup.rows[row_idx].White # ""
                    /\ CurrentGroup.rows[row_idx].Black # ""
                    /\ CurrentGroup.rows[row_idx].White # CurrentGroup.rows[row_idx].Black)
            => LET row == CurrentGroup.rows[row_idx]
               IN  /\ GamesOf(player_stats', row.White) = GamesOf(player_stats, row.White) + 1
                   /\ GamesOf(player_stats', row.Black) = GamesOf(player_stats, row.Black) + 1
                   /\ StatsNames(player_stats')
                         = StatsNames(player_stats) \cup {row.White, row.Black}
                   /\ \A i \in 1..Len(player_stats) :
                         player_stats[i].name \notin {row.White, row.Black}
                             => player_stats'[i] = player_stats[i]]_vars

(* C has played A, then A has played B: the aggregate of C is as the first *)
(* row left it                                                             *)
C23_Witness ==
    /\ pc = "fold" /\ row_idx = 3
    /\ CurrentGroup.rows[1].White = "C" /\ CurrentGroup.rows[2].Black = "B"
    /\ GamesOf(player_stats, "A") = 2
    /\ GamesOf(player_stats, "B") = 1
    /\ GamesOf(player_stats, "C") = 1
    /\ \A s \in RunningAggregates : s.white_games + s.black_games = s.games

(* ------------------------------------------------------------------ *)
(* Review files                                                        *)
(* ------------------------------------------------------------------ *)
Answer(field) == extract_field(body, FIELD_LABELS[field])

(* the validations of C24 on the answers of the issue *)
ValidationsPass ==
    /\ Answer("problem_type") # <<>> /\ Answer("problem_id") # <<>> /\ Answer("verdict") # <<>>
    /\ str_lower(Answer("problem_type")) \in {<<"e","r","d","o","s">>, <<"m","o">>}
    /\ str_isdigit(Answer("problem_id"))
    /\ lists_readable
    /\ Answer("problem_id") \in (IF str_lower(Answer("problem_type")) = <<"e","r","d","o","s">>
                                 THEN ErdosNumbers ELSE MoQuestionIds)
    /\ Answer("verdict") \in DOMAIN VERDICT_MAP
    /\ Answer("explanation") # <<>>
    /\ Answer("verdict") = <<"a","c","c","e","p","t","e","d">> =>
          /\ \E line \in Range(str_splitlines(Answer("citations"))) : IsLink(str_strip(line))
          /\ Len(Answer("explanation")) >= 20

ReviewPath == <<str_lower(Answer("problem_type")), Answer("problem_id")>>

FilesAt(files, path) == {f \in files : <<f[1], f[2]>> = path}

(* C24: a step of main changes the review files only when every validation *)
(* passes, and then only the file reviews/<type>/<id>.json; main returns    *)
(* with that file written only when every validation passes, and when one   *)
(* fails it exits with an error                                             *)
C24_WritesOnlyValidated ==
    /\ [][review_files' # review_files =>
             /\ ValidationsPass
             /\ review_files' \ FilesAt(review_files', ReviewPath)
                   = review_files \ FilesAt(review_files, ReviewPath)
             /\ Cardinality(FilesAt(review_files', ReviewPath)) = 1]_vars
    /\ [](rev_pc = "written" =>
             /\ ValidationsPass
             /\ \E f \in FilesAt(review_files, ReviewPath) :
                   /\ f[3].status = Answer("verdict")
                   /\ f[3].note = Answer("explanation"))
    /\ [](rev_pc = "exit" => ~ValidationsPass /\ rev_error # "")
    /\ [](~ValidationsPass => rev_pc # "write" /\ rev_pc # "written")

(* an accepted review with one link is the content of reviews/erdos/12.json *)
C24_Witness ==
    /\ rev_pc = "written"
    /\ verdict = <<"a","c","c","e","p","t","e","d">>
    /\ Len(citations) = 1
    /\ Cardinality(review_files) = 1
    /\ \E f \in review_files : f[1] = <<"e","r","d","o","s">> /\ f[2] = <<"1","2">> /\ f[3] # OldReview

====
